---- MODULE Spec2Model ----
(***************************************************************************)
(* Model of the override merger of nudb_config (pydantic/load.py):         *)
(* NudbConfig.merge_tomls, _resolve_toml_dir, _merge_into, _merge_mapping, *)
(* _is_none_sentinel, together with the parts of the access layer          *)
(* (pydantic/dotmap.py) and of the typed records (variables.py,            *)
(* datasets.py, paths.py) that the merger calls.                           *)
(*                                                                         *)
(* Python values are records of one shape, so that any two of them can be  *)
(* compared:                                                               *)
(*   k    the Python type: "none" "str" "int" "float" "bool" "list"        *)
(*        "dict" "DotMapDict" "model"                                      *)
(*   cls  the class of a "model", the value type of a "DotMapDict"         *)
(*   id   the name of an object built by the loader ("": any other object) *)
(*   s    the text of a "str"                                              *)
(*   i    the number of an "int", "float" or "bool"                        *)
(*   l    the elements of a "list"                                         *)
(*   m    the items of a mapping, in insertion order, as <<key, value>>    *)
(***************************************************************************)
EXTENDS Integers, Sequences, FiniteSets, TLC

\* configs   the NudbConfig objects, by name
\* pc        where the caller of merge_tomls stands: "idle", or "returned" with
\*           the outcome of the call it made in the variables below
\* call      the directory argument of the call and the paths that existed
\* loaded    the parsed TOML files the call handed to _merge_into, in order
\* warnings  what the call logged
\* err       the exception the call raised ("" for none)
\* merged    the object the call returned
\* ncalls    the number of calls made
VARIABLES configs, pc, call, loaded, warnings, err, merged, ncalls

vars == <<configs, pc, call, loaded, warnings, err, merged, ncalls>>

\* The number of merge_tomls calls explored in one behaviour.
MaxMerges == 2

\* The longest derived_from list of the graphs given to the cycle check.
MaxDeps == 2

\* The most keys that a mapping given to the access layer holds.
MaxKeys == 2

-----------------------------------------------------------------------------
(* Python values *)

Val(k, cls, id, s, i, l, m) ==
    [k |-> k, cls |-> cls, id |-> id, s |-> s, i |-> i, l |-> l, m |-> m]

PyNone == Val("none", "", "", "", 0, <<>>, <<>>)

PyStr(s) == Val("str", "", "", s, 0, <<>>, <<>>)

PyInt(i) == Val("int", "", "", "", i, <<>>, <<>>)

PyFloat(i) == Val("float", "", "", "", i, <<>>, <<>>)

PyBool(b) == Val("bool", "", "", "", IF b THEN 1 ELSE 0, <<>>, <<>>)

PyList(l) == Val("list", "", "", "", 0, l, <<>>)

PyDict(m) == Val("dict", "", "", "", 0, <<>>, m)

DotMapDict(value_type, id, data) == Val("DotMapDict", value_type, id, "", 0, <<>>, data)

Model(cls, id, fields) == Val("model", cls, id, "", 0, <<>>, fields)

\* isinstance(x, (DotMapBaseModel, DotMapDict, dict))
IsMappingLike(x) == x.k \in {"model", "DotMapDict", "dict"}

-----------------------------------------------------------------------------
(* Ordered mappings: Python dict semantics on sequences of <<key, value>> *)

Keys(m) == [n \in 1..Len(m) |-> m[n][1]]

Has(m, key) == \E n \in 1..Len(m) : m[n][1] = key

Get(m, key) == m[CHOOSE n \in 1..Len(m) : m[n][1] = key][2]

GetOr(m, key, default) == IF Has(m, key) THEN Get(m, key) ELSE default

Put(m, key, v) ==
    IF Has(m, key)
    THEN [n \in 1..Len(m) |-> IF m[n][1] = key THEN <<key, v>> ELSE m[n]]
    ELSE Append(m, <<key, v>>)

IsNotKey(p, key) == p[1] # key

Del(m, key) ==
    LET Keep(p) == IsNotKey(p, key) IN SelectSeq(m, Keep)

-----------------------------------------------------------------------------
(* Text. TLC cannot index a string, so Chars gives the characters of every  *)
(* string the model handles; strip, lower and lstrip work on characters.    *)

Chars(s) ==
    CASE s = "" -> <<>>
      [] s = "None" -> <<"N", "o", "n", "e">>
      [] s = " NONE " -> <<" ", "N", "O", "N", "E", " ">>
      [] s = "none" -> <<"n", "o", "n", "e">>
      [] s = "nonesuch" -> <<"n", "o", "n", "e", "s", "u", "c", "h">>
      [] s = " " -> <<" ">>
      [] s = "a" -> <<"a">>
      [] s = "b" -> <<"b">>
      [] s = "x" -> <<"x">>
      [] s = "p" -> <<"p">>
      [] s = "v" -> <<"v">>
      [] s = "t" -> <<"t">>
      [] s = "g" -> <<"g">>
      [] s = "ft" -> <<"f", "t">>
      [] s = "abc" -> <<"a", "b", "c">>
      [] s = "other" -> <<"o", "t", "h", "e", "r">>
      [] s = "STRING" -> <<"S", "T", "R", "I", "N", "G">>
      [] s = "INTEGER" -> <<"I", "N", "T", "E", "G", "E", "R">>
      [] s = "BOGUS" -> <<"B", "O", "G", "U", "S">>
      [] s = "fnr" -> <<"f", "n", "r">>
      [] s = "snr" -> <<"s", "n", "r">>
      [] s = "snr_mrk" -> <<"s", "n", "r", "_", "m", "r", "k">>
      [] s = "fullfort_gk" -> <<"f", "u", "l", "l", "f", "o", "r", "t", "_", "g", "k">>
      [] s = "new" -> <<"n", "e", "w">>
      [] s = "bad" -> <<"b", "a", "d">>
      [] s = "old" -> <<"o", "l", "d">>
      [] s = "by" -> <<"b", "y">>
      [] s = "name" -> <<"n", "a", "m", "e">>
      [] s = "utdatert" -> <<"u", "t", "d", "a", "t", "e", "r", "t">>
      [] s = "/k" -> <<"/", "k">>
      [] s = "/o" -> <<"/", "o">>
      [] s = "/d" -> <<"/", "d">>
      [] s = "ext" -> <<"e", "x", "t">>
      [] s = "/ext" -> <<"/", "e", "x", "t">>
      [] s = "gone" -> <<"g", "o", "n", "e">>
      [] s = "/gone" -> <<"/", "g", "o", "n", "e">>
      [] s = "/w" -> <<"/", "w">>
      [] s = "/w/ext" -> <<"/", "w", "/", "e", "x", "t">>
      [] s = "/w/gone" -> <<"/", "w", "/", "g", "o", "n", "e">>
      [] s = "settings.toml" -> <<"s", "e", "t", "t", "i", "n", "g", "s", ".", "t", "o", "m", "l">>
      [] s = "variables.toml" -> <<"v", "a", "r", "i", "a", "b", "l", "e", "s", ".", "t", "o", "m", "l">>
      [] s = "datasets.toml" -> <<"d", "a", "t", "a", "s", "e", "t", "s", ".", "t", "o", "m", "l">>
      [] s = "paths.toml" -> <<"p", "a", "t", "h", "s", ".", "t", "o", "m", "l">>
      [] s = "notes.txt" -> <<"n", "o", "t", "e", "s", ".", "t", "x", "t">>
      [] s = "variables" -> <<"v", "a", "r", "i", "a", "b", "l", "e", "s">>
      [] s = "datasets" -> <<"d", "a", "t", "a", "s", "e", "t", "s">>
      [] s = "options.toml" -> <<"o", "p", "t", "i", "o", "n", "s", ".", "t", "o", "m", "l">>
      [] s = "variables_derived.toml" ->
            <<"v", "a", "r", "i", "a", "b", "l", "e", "s", "_", "d", "e", "r", "i", "v", "e", "d",
              ".", "t", "o", "m", "l">>
      [] s = "variables_derived_label.toml" ->
            <<"v", "a", "r", "i", "a", "b", "l", "e", "s", "_", "d", "e", "r", "i", "v", "e", "d",
              "_", "l", "a", "b", "e", "l", ".", "t", "o", "m", "l">>
      [] s = "variables_outdated.toml" ->
            <<"v", "a", "r", "i", "a", "b", "l", "e", "s", "_", "o", "u", "t", "d", "a", "t", "e", "d",
              ".", "t", "o", "m", "l">>
      [] s = "datasets_external.toml" ->
            <<"d", "a", "t", "a", "s", "e", "t", "s", "_", "e", "x", "t", "e", "r", "n", "a", "l",
              ".", "t", "o", "m", "l">>

RECURSIVE Text(_)
Text(cs) == IF cs = <<>> THEN "" ELSE Head(cs) \o Text(Tail(cs))

UpperCase == <<"A", "B", "C", "D", "E", "F", "G", "H", "I", "J", "K", "L", "M",
               "N", "O", "P", "Q", "R", "S", "T", "U", "V", "W", "X", "Y", "Z">>

LowerCase == <<"a", "b", "c", "d", "e", "f", "g", "h", "i", "j", "k", "l", "m",
               "n", "o", "p", "q", "r", "s", "t", "u", "v", "w", "x", "y", "z">>

Whitespace == {" ", "\t", "\n", "\r"}

LowerChar(c) ==
    IF \E n \in 1..Len(UpperCase) : UpperCase[n] = c
    THEN LowerCase[CHOOSE n \in 1..Len(UpperCase) : UpperCase[n] = c]
    ELSE c

\* str.lower()
Lower(cs) == [n \in 1..Len(cs) |-> LowerChar(cs[n])]

RECURSIVE LStripChars(_, _)
LStripChars(cs, drop) ==
    IF cs # <<>> /\ Head(cs) \in drop THEN LStripChars(Tail(cs), drop) ELSE cs

RECURSIVE RStripChars(_, _)
RStripChars(cs, drop) ==
    IF cs # <<>> /\ cs[Len(cs)] \in drop
    THEN RStripChars(SubSeq(cs, 1, Len(cs) - 1), drop)
    ELSE cs

\* str.strip()
Strip(cs) == RStripChars(LStripChars(cs, Whitespace), Whitespace)

-----------------------------------------------------------------------------
(* _is_none_sentinel and Python's == *)

IsNoneSentinel(value) ==
    \/ value.k = "none"
    \/ value.k = "str" /\ Lower(Strip(Chars(value.s))) = <<"n", "o", "n", "e">>

IsNumber(x) == x.k \in {"int", "float", "bool"}

RECURSIVE PyEq(_, _)
PyEq(a, b) ==
    IF IsNumber(a) /\ IsNumber(b) THEN a.i = b.i
    ELSE IF a.k # b.k THEN FALSE
    ELSE IF a.k = "none" THEN TRUE
    ELSE IF a.k = "str" THEN a.s = b.s
    ELSE IF a.k = "list"
         THEN Len(a.l) = Len(b.l) /\ \A n \in 1..Len(a.l) : PyEq(a.l[n], b.l[n])
    ELSE IF a.k = "dict"
         THEN /\ Len(a.m) = Len(b.m)
              /\ \A n \in 1..Len(a.m) :
                    Has(b.m, a.m[n][1]) /\ PyEq(a.m[n][2], Get(b.m, a.m[n][1]))
    \* a DotMapDict has no __eq__: two of them are equal when they are one object;
    \* a pydantic model equals another of its class with the same field values
    ELSE a = b

-----------------------------------------------------------------------------
(* The typed records: model_fields of each class, in declaration order.     *)
(* ty is the annotation without "| None", opt says whether None is allowed, *)
(* req whether the field has no default, dflt its default.                  *)

Field(name, ty, opt, req, dflt) ==
    [name |-> name, ty |-> ty, opt |-> opt, req |-> req, dflt |-> dflt]

DTYPE_FIELD_TYPE == {"INTEGER", "FLOAT", "STRING", "DATETIME", "BOOLEAN"}

VariableFields ==
    << Field("name", "str", FALSE, TRUE, PyNone),
       Field("unit", "str", FALSE, TRUE, PyNone),
       Field("dtype", "dtype", FALSE, TRUE, PyNone),
       Field("description_short", "str", TRUE, FALSE, PyNone),
       Field("length", "list[int]", TRUE, FALSE, PyNone),
       Field("klass_codelist", "int", TRUE, FALSE, PyNone),
       Field("klass_codelist_from_date", "str", TRUE, FALSE, PyNone),
       Field("klass_variant", "int", TRUE, FALSE, PyNone),
       Field("klass_variant_search_term", "str", TRUE, FALSE, PyNone),
       Field("klass_correspondence_to", "int", TRUE, FALSE, PyNone),
       Field("klass_codelist_metadata", "klass", TRUE, FALSE, PyNone),
       Field("klass_variant_metadata", "klass", TRUE, FALSE, PyNone),
       Field("renamed_from", "list[str]", TRUE, FALSE, PyNone),
       Field("derived_from", "list[str]", TRUE, FALSE, PyNone),
       Field("derived_uses_datasets", "list[str]", TRUE, FALSE, PyNone),
       Field("derived_join_keys", "list[str]", TRUE, FALSE, PyNone),
       Field("derived_values_priority", "str", TRUE, FALSE, PyNone),
       Field("codelist_extras", "dict[str,str]", TRUE, FALSE, PyNone),
       Field("outdated_comment", "str", TRUE, FALSE, PyNone) >>

DatasetFields ==
    << Field("team", "str", FALSE, TRUE, PyNone),
       Field("bucket", "str", FALSE, TRUE, PyNone),
       Field("path_glob", "str", FALSE, TRUE, PyNone),
       Field("variables", "list[str]", TRUE, FALSE, PyNone),
       Field("thresholds_empty", "DotMapDict[float]", TRUE, FALSE, PyNone),
       Field("min_values", "DotMapDict[str]", TRUE, FALSE, PyNone),
       Field("max_values", "DotMapDict[str]", TRUE, FALSE, PyNone),
       Field("dataset_specific_renames", "DotMapDict[str]", TRUE, FALSE, PyNone) >>

PathEntryFields ==
    << Field("katalog", "str", TRUE, FALSE, PyNone),
       Field("delt_utdanning", "str", FALSE, FALSE, PyStr("")) >>

\* the flags of the options block
OptionsFields ==
    << Field("warn_unsafe_derive", "bool", FALSE, TRUE, PyNone) >>

NudbConfigFields ==
    << Field("dapla_team", "str", FALSE, TRUE, PyNone),
       Field("short_name", "str", FALSE, TRUE, PyNone),
       Field("variables_sort_unit", "list[str]", TRUE, FALSE, PyNone),
       Field("variables", "DotMapDict[Variable]", FALSE, TRUE, PyNone),
       Field("datasets", "DotMapDict[Dataset]", FALSE, TRUE, PyNone),
       Field("paths", "DotMapDict[PathEntry]", FALSE, TRUE, PyNone),
       Field("options", "Options", FALSE, TRUE, PyNone) >>

\* type(target).model_fields
ModelFields(cls) ==
    CASE cls = "Variable" -> VariableFields
      [] cls = "Dataset" -> DatasetFields
      [] cls = "PathEntry" -> PathEntryFields
      [] cls = "NudbConfig" -> NudbConfigFields
      [] cls = "Options" -> OptionsFields
      [] OTHER -> <<>>

FieldNames(cls) == {ModelFields(cls)[n].name : n \in 1..Len(ModelFields(cls))}

\* whether value_type has a callable model_validate
IsModelClass(cls) == cls \in {"Variable", "Dataset", "PathEntry"}

-----------------------------------------------------------------------------
(* pydantic validation, as far as the merger reaches it: model_validate of  *)
(* Variable, Dataset and PathEntry on a mapping. A result is [ok, v]. The   *)
(* conversions of pydantic's lax mode are modelled for numbers; a numeric   *)
(* string given for a number is not (the model holds no such string).       *)

Ok(v) == [ok |-> TRUE, v |-> v]

Invalid == [ok |-> FALSE, v |-> PyNone]

AllOk(rs) == \A n \in 1..Len(rs) : rs[n].ok

ScalarValidate(ty, v) ==
    CASE ty = "str" -> IF v.k = "str" THEN Ok(v) ELSE Invalid
      [] ty = "dtype" -> IF v.k = "str" /\ v.s \in DTYPE_FIELD_TYPE THEN Ok(v) ELSE Invalid
      [] ty = "int" -> IF IsNumber(v) THEN Ok(PyInt(v.i)) ELSE Invalid
      [] ty = "float" -> IF IsNumber(v) THEN Ok(PyFloat(v.i)) ELSE Invalid
      [] ty = "klass" -> Invalid
      [] OTHER -> Invalid

ElementType(ty) ==
    CASE ty = "list[int]" -> "int"
      [] ty = "list[str]" -> "str"
      [] ty = "dict[str,str]" -> "str"
      [] ty = "DotMapDict[float]" -> "float"
      [] ty = "DotMapDict[str]" -> "str"
      [] OTHER -> ""

ItemsValidate(ety, m) ==
    [n \in 1..Len(m) |-> ScalarValidate(ety, m[n][2])]

FieldValidate(ty, opt, v) ==
    IF opt /\ v.k = "none" THEN Ok(v)
    ELSE IF ty \in {"list[int]", "list[str]"}
    THEN IF v.k # "list" THEN Invalid
         ELSE LET rs == [n \in 1..Len(v.l) |-> ScalarValidate(ElementType(ty), v.l[n])]
              IN IF AllOk(rs) THEN Ok(PyList([n \in 1..Len(rs) |-> rs[n].v])) ELSE Invalid
    ELSE IF ty = "dict[str,str]"
    THEN IF v.k # "dict" THEN Invalid
         ELSE LET rs == ItemsValidate("str", v.m)
              IN IF AllOk(rs)
                 THEN Ok(PyDict([n \in 1..Len(rs) |-> <<v.m[n][1], rs[n].v>>]))
                 ELSE Invalid
    ELSE IF ty \in {"DotMapDict[float]", "DotMapDict[str]"}
    \* the union schema of DotMapDict: an instance as it is, or a dict that build() wraps
    THEN IF v.k = "DotMapDict" THEN Ok(v)
         ELSE IF v.k # "dict" THEN Invalid
         ELSE LET rs == ItemsValidate(ElementType(ty), v.m)
              IN IF AllOk(rs)
                 THEN Ok(DotMapDict(ElementType(ty), "",
                                    [n \in 1..Len(rs) |-> <<v.m[n][1], rs[n].v>>]))
                 ELSE Invalid
    ELSE ScalarValidate(ty, v)

\* Variable._require_outdated_comment_when_utdatert
RequireOutdatedComment(fields) ==
    Get(fields, "unit") = PyStr("utdatert") =>
        /\ Get(fields, "outdated_comment").k # "none"
        /\ Strip(Chars(Get(fields, "outdated_comment").s)) # <<>>

\* Variable._require_klass_codelist_to_be_positive_int
RequireKlassCodelistPositive(fields) ==
    Get(fields, "klass_codelist").k # "none" =>
        /\ Get(fields, "klass_codelist").k = "int"
        /\ Get(fields, "klass_codelist").i >= 0

AfterValidators(cls, fields) ==
    cls = "Variable" => RequireOutdatedComment(fields) /\ RequireKlassCodelistPositive(fields)

\* the validation of every field of cls on the mapping m: a key that is absent
\* takes the default, unless the field is required
FieldResults(cls, m) ==
    [n \in 1..Len(ModelFields(cls)) |->
        IF Has(m, ModelFields(cls)[n].name)
        THEN FieldValidate(ModelFields(cls)[n].ty, ModelFields(cls)[n].opt,
                           Get(m, ModelFields(cls)[n].name))
        ELSE IF ModelFields(cls)[n].req THEN Invalid ELSE Ok(ModelFields(cls)[n].dflt)]

FieldValues(cls, rs) == [n \in 1..Len(rs) |-> <<ModelFields(cls)[n].name, rs[n].v>>]

\* the instance built from the field results rs, unless a field or an after
\* validator raised
Build(cls, rs) ==
    IF AllOk(rs) /\ AfterValidators(cls, FieldValues(cls, rs))
    THEN Ok(Model(cls, "", FieldValues(cls, rs)))
    ELSE Invalid

\* cls.model_validate(value): keys that are no field are ignored
ModelValidate(cls, value) ==
    IF value.k = "model" /\ value.cls = cls THEN Ok(value)
    ELSE IF value.k # "dict" THEN Invalid
    ELSE Build(cls, FieldResults(cls, value.m))

-----------------------------------------------------------------------------
(* DotMapDict: __contains__, __getitem__, __delitem__, __setitem__ with     *)
(* _coerce_value                                                            *)

IsInstance(value, value_type) ==
    \/ value.k = "model" /\ value.cls = value_type
    \/ value.k = value_type

CoerceValue(value_type, value) ==
    IF value_type = "" THEN Ok(value)
    ELSE IF IsInstance(value, value_type) THEN Ok(value)
    ELSE IF IsModelClass(value_type) THEN ModelValidate(value_type, value)
    ELSE Ok(value)

\* self._data[key] = coerced, unless _coerce_value raised
StoreCoerced(target, key, coerced) ==
    IF coerced.ok THEN Ok([target EXCEPT !.m = Put(target.m, key, coerced.v)]) ELSE Invalid

\* target[key] = value: [ok, v] with v the collection afterwards
SetItem(target, key, value) == StoreCoerced(target, key, CoerceValue(target.cls, value))

\* del target[key]
DelItem(target, key) == [target EXCEPT !.m = Del(target.m, key)]

\* setattr(target, key, value) on a pydantic model without validate_assignment
SetAttr(target, key, value) == [target EXCEPT !.m = Put(target.m, key, value)]

-----------------------------------------------------------------------------
(* _merge_mapping. The state of a merge is [t, w, err]: the target as it is *)
(* now (the code mutates it in place), the warnings logged so far and       *)
(* whether a ValidationError was raised, after which nothing more is done.  *)

SameValueWarning == "Merge overwrite has same value; consider removing from local config: %s"

RECURSIVE DotJoin(_)
\* ".".join(path)
DotJoin(path) ==
    IF path = <<>> THEN ""
    ELSE IF Len(path) = 1 THEN path[1]
    ELSE path[1] \o "." \o DotJoin(Tail(path))

Warning(path, key) == [msg |-> SameValueWarning, arg |-> DotJoin(Append(path, key))]

\* the warning of the else branches: logged when current == value
WarnIfSame(acc, current, value, path, key) ==
    IF PyEq(current, value) THEN Append(acc.w, Warning(path, key)) ELSE acc.w

RECURSIVE MergeMapping(_, _, _)

\* what a recursive call that ended as r leaves behind in the parent: current was
\* merged in place
Descended(acc, key, r) ==
    [t |-> [acc.t EXCEPT !.m = Put(acc.t.m, key, r.t)],
     w |-> acc.w \o r.w,
     err |-> r.err]

\* _merge_mapping(current, value, path=(*path, key))
Descend(acc, key, current, value, path) ==
    Descended(acc, key, MergeMapping(current, value.m, Append(path, key)))

\* An injection of the word "name" where the key belongs.
InjectNameLiteral(value, key) == PyDict(Put(value.m, "name", PyStr("name")))

\* {**value, "name": key}
InjectName(value, key) == PyDict(Put(value.m, "name", PyStr(key)))

\* target[key] = value ended as stored, after the warnings w
Assigned(acc, stored, w) ==
    [t |-> IF stored.ok THEN stored.v ELSE acc.t, w |-> w, err |-> ~stored.ok]

\* lines 119-133: the key is merged into, replaced or inserted
DotMapDictAssign(acc, key, value, path) ==
    IF Has(acc.t.m, key)
    THEN IF value.k = "dict" /\ IsMappingLike(Get(acc.t.m, key))
         THEN Descend(acc, key, Get(acc.t.m, key), value, path)
         ELSE Assigned(acc, SetItem(acc.t, key, value),
                       WarnIfSame(acc, Get(acc.t.m, key), value, path, key))
    ELSE Assigned(acc, SetItem(acc.t, key, value), acc.w)

\* one pass of the loop over a DotMapDict target (lines 110-133)
DotMapDictItem(acc, key, value, path) ==
    IF IsNoneSentinel(value)
    THEN IF Has(acc.t.m, key) THEN [acc EXCEPT !.t = DelItem(acc.t, key)] ELSE acc
    ELSE DotMapDictAssign(acc, key,
                          IF value.k = "dict" /\ acc.t.cls = "Variable" /\ ~Has(value.m, "name")
                          THEN InjectName(value, key)
                          ELSE value,
                          path)

\* one pass of the loop over a DotMapBaseModel target (lines 138-155)
ModelItem(acc, key, value, path) ==
    IF key \notin FieldNames(acc.t.cls) THEN acc
    ELSE IF IsNoneSentinel(value) THEN [acc EXCEPT !.t = SetAttr(acc.t, key, PyNone)]
    ELSE LET current == GetOr(acc.t.m, key, PyNone)
         IN IF value.k = "dict" /\ IsMappingLike(current)
            THEN Descend(acc, key, current, value, path)
            ELSE [t |-> SetAttr(acc.t, key, value),
                  w |-> WarnIfSame(acc, current, value, path, key),
                  err |-> FALSE]

\* one pass of the loop over a plain dict target (lines 159-174)
DictItem(acc, key, value, path) ==
    IF IsNoneSentinel(value) THEN [acc EXCEPT !.t.m = Del(acc.t.m, key)]
    ELSE LET current == GetOr(acc.t.m, key, PyNone)
         IN IF value.k = "dict" /\ IsMappingLike(current)
            THEN Descend(acc, key, current, value, path)
            ELSE [t |-> [acc.t EXCEPT !.m = Put(acc.t.m, key, value)],
                  w |-> WarnIfSame(acc, current, value, path, key),
                  err |-> FALSE]

MergeItem(acc, key, value, path) ==
    CASE acc.t.k = "DotMapDict" -> DotMapDictItem(acc, key, value, path)
      [] acc.t.k = "model" -> ModelItem(acc, key, value, path)
      [] acc.t.k = "dict" -> DictItem(acc, key, value, path)
      [] OTHER -> acc

RECURSIVE MergeItems(_, _, _, _)
\* for key, value in updates.items(), from the n-th item on
MergeItems(acc, updates, n, path) ==
    IF n > Len(updates) \/ acc.err THEN acc
    ELSE MergeItems(MergeItem(acc, updates[n][1], updates[n][2], path), updates, n + 1, path)

MergeMapping(target, updates, path) ==
    MergeItems([t |-> target, w |-> <<>>, err |-> FALSE], updates, 1, path)

\* _merge_into(target, updates)
MergeInto(target, updates) ==
    IF updates.k = "dict" THEN MergeMapping(target, updates.m, <<>>)
    ELSE [t |-> target, w |-> <<>>, err |-> FALSE]

-----------------------------------------------------------------------------
(* Paths and the file system. fs maps the absolute path of every directory  *)
(* that exists to its listing, a function from file name to the parsed TOML *)
(* of that file.                                                            *)

Cwd == "/w"

IsAbsolute(path) == Chars(path) # <<>> /\ Head(Chars(path)) = "/"

\* Path.cwd() / rest, and the place a relative path stands for
PathJoin(base, rest) == IF rest = "" THEN base ELSE base \o "/" \o rest

AbsPath(path) == IF IsAbsolute(path) THEN path ELSE PathJoin(Cwd, path)

\* Path.exists()
Exists(fs, path) == AbsPath(path) \in DOMAIN fs

\* str(toml_dir).lstrip("/\\")
LStripSlashes(path) == Text(LStripChars(Chars(path), {"/", "\\"}))

\* _resolve_toml_dir: [ok, path]; not ok is FileNotFoundError
ResolveTomlDir(toml_dir, fs) ==
    LET fallback == PathJoin(Cwd, LStripSlashes(toml_dir))
    IN IF Exists(fs, toml_dir) THEN [ok |-> TRUE, path |-> toml_dir]
       ELSE IF Exists(fs, fallback) THEN [ok |-> TRUE, path |-> fallback]
       ELSE [ok |-> FALSE, path |-> ""]

EndsWith(cs, suffix) ==
    Len(cs) >= Len(suffix) /\ SubSeq(cs, Len(cs) - Len(suffix) + 1, Len(cs)) = suffix

\* cfg_dir.glob("*.toml")
GlobToml(listing) == {name \in DOMAIN listing : EndsWith(Chars(name), <<".", "t", "o", "m", "l">>)}

AsciiOrder == <<".", "/">> \o UpperCase \o <<"_">> \o LowerCase

Ord(c) == CHOOSE n \in 1..Len(AsciiOrder) : AsciiOrder[n] = c

RECURSIVE LexLess(_, _)
LexLess(a, b) ==
    IF b = <<>> THEN FALSE
    ELSE IF a = <<>> THEN TRUE
    ELSE IF Head(a) # Head(b) THEN Ord(Head(a)) < Ord(Head(b))
    ELSE LexLess(Tail(a), Tail(b))

RECURSIVE Sorted(_)
\* sorted(names)
Sorted(names) ==
    IF names = {} THEN <<>>
    ELSE LET least == CHOOSE x \in names :
                          \A y \in names \ {x} : LexLess(Chars(x), Chars(y))
         IN <<least>> \o Sorted(names \ {least})

-----------------------------------------------------------------------------
(* NudbConfig.merge_tomls *)

\* the state of the loop of merge_tomls after _merge_into(self, toml_data) ended as r
FileMerged(acc, toml_data, r) ==
    [t |-> r.t, w |-> acc.w \o r.w, err |-> r.err, read |-> Append(acc.read, toml_data)]

RECURSIVE MergeFiles(_, _, _, _)
\* the loop of merge_tomls from the n-th path on; acc.read are the files loaded
MergeFiles(acc, listing, names, n) ==
    IF n > Len(names) \/ acc.err THEN acc
    ELSE MergeFiles(FileMerged(acc, listing[names[n]], MergeInto(acc.t, listing[names[n]])),
                    listing, names, n + 1)

NoObject == ""

\* the loop of merge_tomls over the sorted *.toml paths of a directory
MergeListing(target, listing) ==
    MergeFiles([t |-> target, w |-> <<>>, err |-> FALSE, read |-> <<>>],
               listing, Sorted(GlobToml(listing)), 1)

\* the outcome of a call that _resolve_toml_dir ended
NotFound(heap) ==
    [configs |-> heap, loaded |-> <<>>, warnings |-> <<>>,
     err |-> "FileNotFoundError", merged |-> NoObject]

\* the outcome of a call whose loop over the files ended as r: self was merged
\* into, and is returned unless a file raised
MergedInto(heap, self, r) ==
    [configs |-> [heap EXCEPT ![self] = r.t],
     loaded |-> r.read,
     warnings |-> r.w,
     err |-> IF r.err THEN "ValidationError" ELSE "",
     merged |-> IF r.err THEN NoObject ELSE self]

\* A merge_tomls that takes a directory it cannot find for one without files.
MergeTomlsMissingDirEmpty(heap, self, toml_dir, fs) ==
    MergedInto(heap, self,
               MergeListing(heap[self],
                            IF ResolveTomlDir(toml_dir, fs).ok
                            THEN fs[AbsPath(ResolveTomlDir(toml_dir, fs).path)]
                            ELSE <<>>))

\* A merge_tomls that merges into self._deep_copy() and returns the copy.
MergeTomlsOnCopy(heap, self, toml_dir, fs) ==
    IF ~ResolveTomlDir(toml_dir, fs).ok THEN NotFound(heap)
    ELSE LET r == MergeListing(heap[self], fs[AbsPath(ResolveTomlDir(toml_dir, fs).path)])
         IN [configs |-> IF r.err THEN heap
                         ELSE ("copy" :> [r.t EXCEPT !.id = "copy"]) @@ heap,
             loaded |-> r.read,
             warnings |-> r.w,
             err |-> IF r.err THEN "ValidationError" ELSE "",
             merged |-> IF r.err THEN NoObject ELSE "copy"]

\* self.merge_tomls(toml_dir) on the objects of heap: the heap afterwards, the
\* files loaded, the warnings logged, the exception raised ("" for none) and the
\* object returned
MergeTomls(heap, self, toml_dir, fs) ==
    IF ~ResolveTomlDir(toml_dir, fs).ok THEN NotFound(heap)
    ELSE MergedInto(heap, self,
                    MergeListing(heap[self], fs[AbsPath(ResolveTomlDir(toml_dir, fs).path)]))

-----------------------------------------------------------------------------
(* The configuration that load_pydantic_settings returns, here for a small  *)
(* set of base TOML files: two variables, one dataset, one environment.     *)

Validated(cls, m) == ModelValidate(cls, PyDict(m)).v

BaseVariables ==
    << <<"fnr", Validated("Variable",
                  << <<"name", PyStr("fnr")>>, <<"unit", PyStr("p")>>,
                     <<"dtype", PyStr("STRING")>>, <<"length", PyList(<<PyInt(11)>>)>>,
                     <<"codelist_extras", PyDict(<< <<"a", PyStr("x")>> >>)>> >>)>>,
       <<"snr_mrk", Validated("Variable",
                  << <<"name", PyStr("snr_mrk")>>, <<"unit", PyStr("p")>>,
                     <<"dtype", PyStr("STRING")>> >>)>> >>

BaseDatasets ==
    << <<"igang", Validated("Dataset",
                  << <<"team", PyStr("t")>>, <<"bucket", PyStr("b")>>,
                     <<"path_glob", PyStr("g")>>,
                     <<"variables", PyList(<<PyStr("fnr")>>)>>,
                     <<"thresholds_empty", PyDict(<< <<"snr", PyFloat(5)>> >>)>>,
                     <<"dataset_specific_renames", PyDict(<< <<"ftype", PyStr("ft")>> >>)>> >>)>> >>

BasePaths ==
    << <<"local_daplalab", Validated("PathEntry",
                  << <<"katalog", PyStr("/k")>>, <<"delt_utdanning", PyStr("/d")>> >>)>> >>

BaseConfig ==
    Model("NudbConfig", "settings",
          << <<"dapla_team", PyStr("t")>>,
             <<"short_name", PyStr("a")>>,
             <<"variables_sort_unit", PyList(<<PyStr("p")>>)>>,
             <<"variables", DotMapDict("Variable", "settings.variables", BaseVariables)>>,
             <<"datasets", DotMapDict("Dataset", "settings.datasets", BaseDatasets)>>,
             <<"paths", DotMapDict("PathEntry", "settings.paths", BasePaths)>>,
             <<"options", Model("Options", "settings.options",
                                << <<"warn_unsafe_derive", PyBool(TRUE)>> >>)>> >>)

\* the object merge_tomls is called on
Self == "settings"

-----------------------------------------------------------------------------
(* The override directories of the model: what the parsed TOML files of a   *)
(* directory may hold.                                                      *)

Vars(m) == PyDict(<< <<"variables", PyDict(m)>> >>)

SettingsTomls ==
    { PyDict(<< <<"short_name", PyStr("b")>>, <<"unknown_key", PyStr("x")>> >>) }

VariablesTomls ==
    { \* replace a field of an entry, beside a key Variable does not have
      Vars(<< <<"fnr", PyDict(<< <<"length", PyList(<<PyInt(10)>>)>>,
                                 <<"nonsense", PyInt(123)>> >>)>> >>),
      \* a new entry, and the removal of another
      Vars(<< <<"fullfort_gk", PyDict(<< <<"unit", PyStr("v")>>, <<"dtype", PyStr("STRING")>>,
                                         <<"length", PyList(<<PyInt(2)>>)>> >>)>>,
              <<"snr_mrk", PyStr("None")>> >>),
      \* the value the field has already
      Vars(<< <<"fnr", PyDict(<< <<"unit", PyStr("p")>> >>)>> >>),
      \* values of the wrong type
      Vars(<< <<"fnr", PyDict(<< <<"length", PyStr("abc")>>,
                                 <<"dtype", PyStr("BOGUS")>> >>)>> >>),
      \* a new entry without its required dtype, after a good key
      Vars(<< <<"fnr", PyDict(<< <<"length", PyList(<<PyInt(10)>>)>> >>)>>,
              <<"bad", PyDict(<< <<"unit", PyStr("p")>> >>)>> >>),
      \* a new entry with a sentinel among its fields
      Vars(<< <<"new", PyDict(<< <<"unit", PyStr("p")>>, <<"dtype", PyStr("STRING")>>,
                                 <<"description_short", PyStr(" NONE ")>> >>)>> >>),
      \* an entry that carries its own name
      Vars(<< <<"fnr", PyDict(<< <<"name", PyStr("other")>> >>)>> >>),
      \* sentinels for a field and for a key of a plain mapping; a key that is absent
      Vars(<< <<"fnr", PyDict(<< <<"length", PyStr("None")>>,
                                 <<"codelist_extras", PyDict(<< <<"a", PyStr("none")>> >>)>> >>)>>,
              <<"gone", PyStr("none")>> >>),
      \* an entry made outdated without a comment
      Vars(<< <<"fnr", PyDict(<< <<"unit", PyStr("utdatert")>> >>)>> >>),
      \* a new outdated entry whose comment is blank
      Vars(<< <<"old", PyDict(<< <<"unit", PyStr("utdatert")>>, <<"dtype", PyStr("STRING")>>,
                                 <<"outdated_comment", PyStr(" ")>> >>)>> >>),
      \* the collection itself given as a sentinel, and as a scalar
      PyDict(<< <<"variables", PyStr("None")>> >>),
      PyDict(<< <<"variables", PyInt(5)>> >>) }

DatasetsTomls ==
    { PyDict(<< <<"datasets", PyDict(<<
        <<"igang", PyDict(<< <<"thresholds_empty", PyDict(<< <<"snr", PyFloat(8)>> >>)>>,
                             <<"dataset_specific_renames",
                               PyDict(<< <<"ftype", PyStr("None")>> >>)>> >>)>> >>)>> >>) }

PathsTomls ==
    { PyDict(<< <<"paths", PyDict(<<
        <<"local_daplalab", PyDict(<< <<"katalog", PyStr("/o")>>,
                                      <<"extra", PyStr("x")>> >>)>> >>)>> >>) }

\* the team of a dataset, as a settings.toml and as a datasets.toml may set it
DatasetTeam(team) ==
    PyDict(<< <<"datasets", PyDict(<< <<"igang", PyDict(<< <<"team", PyStr(team)>> >>)>> >>)>> >>)

NoFile == PyNone

File(name, toml) == IF toml = NoFile THEN <<>> ELSE name :> toml

\* every category's file is optional
Listings ==
    { File("settings.toml", s) @@ File("variables.toml", v)
        @@ File("datasets.toml", d) @@ File("paths.toml", p) :
        s \in SettingsTomls \cup {NoFile}, v \in VariablesTomls \cup {NoFile},
        d \in DatasetsTomls \cup {NoFile}, p \in PathsTomls \cup {NoFile} }

\* directories whose files set the same key: settings.toml and datasets.toml,
\* variables.toml and paths.toml
SharedKeyListings ==
    { File("settings.toml", DatasetTeam("a")) @@ File("datasets.toml", DatasetTeam("b")),
      File("variables.toml", DatasetTeam("a")) @@ File("paths.toml", DatasetTeam("b")),
      File("settings.toml", DatasetTeam("a")) @@ File("variables.toml", DatasetTeam("b")) }

\* a directory that brings a new environment into paths
NewEntryListings ==
    { File("paths.toml", PyDict(<< <<"paths", PyDict(<<
        <<"prod", PyDict(<< <<"katalog", PyStr("/k")>> >>)>> >>)>> >>)) }

\* A call's directory argument and the file system it meets: a relative path that
\* exists; an absolute one that exists only below the working directory; one that
\* exists at both places; paths that exist at neither.
Environments ==
    { [toml_dir |-> "ext", fs |-> ("/w/ext" :> l)] : l \in Listings }
    \cup { [toml_dir |-> "/ext", fs |-> ("/w/ext" :> File("variables.toml", v))] :
             v \in VariablesTomls }
    \cup { [toml_dir |-> "/ext",
            fs |-> ("/ext" :> File("settings.toml", s)) @@ ("/w/ext" :> File("variables.toml", v))] :
             s \in SettingsTomls, v \in VariablesTomls }
    \cup { [toml_dir |-> d, fs |-> ("/w/ext" :> File("variables.toml", v))] :
             d \in {"gone", "/gone"}, v \in VariablesTomls }
    \cup { [toml_dir |-> "ext", fs |-> ("/ext" :> File("variables.toml", v))] :
             v \in VariablesTomls }
    \cup { [toml_dir |-> "ext", fs |-> ("/w/ext" :> l)] : l \in SharedKeyListings }
    \cup { [toml_dir |-> "ext", fs |-> ("/w/ext" :> l)] : l \in NewEntryListings }

-----------------------------------------------------------------------------
(* The state machine: a program that holds the loaded configuration and     *)
(* calls merge_tomls on it.                                                 *)

NoCall == [toml_dir |-> "", exists |-> {}]

\* the files of the directory a call resolves toml_dir to, none if it finds none
Listing(toml_dir, fs) ==
    IF ResolveTomlDir(toml_dir, fs).ok THEN fs[AbsPath(ResolveTomlDir(toml_dir, fs).path)]
    ELSE <<>>

Init ==
    /\ configs = (Self :> BaseConfig)
    /\ pc = "idle"
    /\ call = NoCall
    /\ loaded = <<>>
    /\ warnings = <<>>
    /\ err = ""
    /\ merged = NoObject
    /\ ncalls = 0

\* settings.merge_tomls(env.toml_dir), up to its return or its exception
MergeTomlsCall(env) ==
    /\ pc = "idle"
    /\ ncalls < MaxMerges
    /\ \E r \in {MergeTomls(configs, Self, env.toml_dir, env.fs)} :
          /\ configs' = r.configs
          /\ loaded' = r.loaded
          /\ warnings' = r.warnings
          /\ err' = r.err
          /\ merged' = r.merged
    /\ call' = [toml_dir |-> env.toml_dir, exists |-> DOMAIN env.fs,
                listing |-> Listing(env.toml_dir, env.fs)]
    /\ pc' = "returned"
    /\ ncalls' = ncalls + 1

\* the caller goes on: the outcome of the call is dropped, the objects stay
Resume ==
    /\ pc = "returned"
    /\ pc' = "idle"
    /\ call' = NoCall
    /\ loaded' = <<>>
    /\ warnings' = <<>>
    /\ err' = ""
    /\ merged' = NoObject
    /\ UNCHANGED <<configs, ncalls>>

Next ==
    \/ \E env \in Environments : MergeTomlsCall(env)
    \/ Resume

Spec == Init /\ [][Next]_vars

-----------------------------------------------------------------------------
(* Reading a configuration and an override by key paths *)

Missing == Val("missing", "", "", "", 0, <<>>, <<>>)

RECURSIVE At(_, _)
\* v[path[1]][path[2]]..., Missing where a key is not there
At(v, path) ==
    IF path = <<>> THEN v
    ELSE IF IsMappingLike(v) /\ Has(v.m, Head(path)) THEN At(Get(v.m, Head(path)), Tail(path))
    ELSE Missing

IsPrefix(q, p) == Len(q) <= Len(p) /\ SubSeq(p, 1, Len(q)) = q

RECURSIVE LeafPaths(_)
\* the key paths of a mapping that end at a value that is no mapping
LeafPaths(v) ==
    IF IsMappingLike(v)
    THEN UNION { {<<v.m[n][1]>> \o p : p \in LeafPaths(v.m[n][2])} : n \in 1..Len(v.m) }
    ELSE {<<>>}

RECURSIVE SentinelPaths(_)
\* the key paths of an override that end at a none-sentinel
SentinelPaths(v) ==
    IF IsNoneSentinel(v) THEN {<<>>}
    ELSE IF v.k = "dict"
    THEN UNION { {<<v.m[n][1]>> \o p : p \in SentinelPaths(v.m[n][2])} : n \in 1..Len(v.m) }
    ELSE {}

RECURSIVE UnknownKeys(_, _, _)
\* the dotted paths of the keys of an override that the typed record they are
\* given for does not declare
UnknownKeys(target, updates, path) ==
    UNION { LET key == updates[n][1]
                value == updates[n][2]
            IN IF target.k = "model" /\ key \notin FieldNames(target.cls)
               THEN {DotJoin(Append(path, key))}
               ELSE IF value.k = "dict" /\ IsMappingLike(At(target, <<key>>))
               THEN UnknownKeys(At(target, <<key>>), value.m, Append(path, key))
               ELSE {}
          : n \in 1..Len(updates) }

\* the overrides of files applied to target in order, as merge_tomls applies them
Applied(target, files) ==
    MergeFiles([t |-> target, w |-> <<>>, err |-> FALSE, read |-> <<>>],
               files, [n \in 1..Len(files) |-> n], 1)

\* the call that has just returned found its directory at neither place
DirectoryMissing(c) ==
    /\ AbsPath(c.toml_dir) \notin c.exists
    /\ PathJoin(Cwd, LStripSlashes(c.toml_dir)) \notin c.exists

\* every field of a typed record holds a value of the field's declared type
WellTyped(record) ==
    \A n \in 1..Len(ModelFields(record.cls)) :
        LET f == ModelFields(record.cls)[n]
        IN FieldValidate(f.ty, f.opt, At(record, <<f.name>>)).ok

Collections == {"variables", "datasets", "paths"}

-----------------------------------------------------------------------------
(* The claims *)

\* C1: a call on a directory with one override file that holds keys the typed
\* record does not declare does not fail, and logs exactly one warning for each
\* such key, with the key's dotted path.
C1_UnknownKeyWarned ==
    [][(pc' = "returned" /\ Len(loaded') = 1
            /\ UnknownKeys(configs[Self], loaded'[1].m, <<>>) # {})
        => /\ err' = ""
           /\ \A p \in UnknownKeys(configs[Self], loaded'[1].m, <<>>) :
                 Cardinality({n \in 1..Len(warnings') : warnings'[n].arg = p}) = 1]_vars

\* C2: after a call that returned, every key that an override file gave a
\* none-sentinel for, at any depth, is absent from the configuration or is a
\* field reset to None.
C2_SentinelRemoves ==
    (pc = "returned" /\ err = "")
    => \A n \in 1..Len(loaded) : \A p \in SentinelPaths(loaded[n]) :
          At(configs[Self], p) \in {Missing, PyNone}

\* C3: applying the override files of a call that returned a second time changes
\* no value of the configuration.
C3_Idempotent ==
    (pc = "returned" /\ err = "") => Applied(configs[Self], loaded).t = configs[Self]

\* C4: an override file whose every key carries the value the configuration
\* holds already leaves the configuration unchanged and logs one warning per key
\* of the file, with the key's dotted path, and no other warning.
C4_RedundantWarnedOnce ==
    [][(pc' = "returned" /\ Len(loaded') = 1 /\ LeafPaths(loaded'[1]) # {}
            /\ \A p \in LeafPaths(loaded'[1]) :
                  PyEq(At(configs[Self], p), At(loaded'[1], p)))
        => /\ configs' = configs
           /\ Len(warnings') = Cardinality(LeafPaths(loaded'[1]))
           /\ {warnings'[n].arg : n \in 1..Len(warnings')}
                 = {DotJoin(p) : p \in LeafPaths(loaded'[1])}]_vars

\* C5: a merge keeps the value of every key of the configuration that no override
\* file of the call names: a value changes only at or below a key path of an
\* override.
C5_UnnamedKeysKept ==
    [][pc' = "returned"
        => \A p \in LeafPaths(configs[Self]) :
              (\A n \in 1..Len(loaded') : \A q \in LeafPaths(loaded'[n]) :
                  ~IsPrefix(q, p) /\ ~IsPrefix(p, q))
              => At(configs'[Self], p) = At(configs[Self], p)]_vars

\* C6: no merge stores a value of the wrong type in a field of a typed record:
\* every entry of variables, datasets and paths is well typed in every state.
C6_FieldsValidated ==
    \A c \in Collections :
        LET coll == At(configs[Self], <<c>>)
        IN coll.k = "DotMapDict"
           => \A n \in 1..Len(coll.m) : coll.m[n][2].k = "model" => WellTyped(coll.m[n][2])

\* C7: a call that fails with a validation error leaves the configuration as it
\* was before the call.
C7_AllOrNothing ==
    [][(pc' = "returned" /\ err' = "ValidationError") => configs' = configs]_vars

\* C8: a call whose directory exists neither as given nor below the working
\* directory raises FileNotFoundError, reads no file and leaves the configuration
\* unchanged.
C8_MissingDirectory ==
    [][(pc' = "returned" /\ DirectoryMissing(call'))
        => /\ err' = "FileNotFoundError"
           /\ loaded' = <<>>
           /\ warnings' = <<>>
           /\ merged' = NoObject
           /\ configs' = configs]_vars

\* C8 witness: a call on a missing directory has raised, on a configuration that
\* an earlier call had changed.
C8_Witness ==
    /\ pc = "returned"
    /\ DirectoryMissing(call)
    /\ err = "FileNotFoundError"
    /\ configs[Self] # BaseConfig

\* C9 (as amended): merge_tomls applies the overrides to the object it is called
\* on and returns that object: a call that returned gave back its receiver, no
\* new configuration object exists, and the receiver holds the overrides of the
\* files read.
C9_MergedInPlace ==
    [][(pc' = "returned" /\ err' = "")
        => /\ merged' = Self
           /\ DOMAIN configs' = DOMAIN configs
           /\ configs'[Self] = Applied(configs[Self], loaded').t]_vars

\* C9 witness: a call returned its receiver, and the receiver is no longer the
\* configuration that was loaded.
C9_Witness ==
    /\ pc = "returned"
    /\ err = ""
    /\ merged = Self
    /\ loaded # <<>>
    /\ configs[Self] # BaseConfig

\* C9 (as stated): the object a call returns is a new one, and the object the call
\* was made on is as it was before the call.
C9_ReturnsCopy ==
    [][(pc' = "returned" /\ err' = "")
        => /\ merged' \notin DOMAIN configs
           /\ configs'[Self] = configs[Self]]_vars

\* C10: in every state the root's variables, datasets and paths are the collection
\* objects that the loader built.
C10_CollectionIdentity ==
    \A c \in Collections :
        /\ At(configs[Self], <<c>>).k = "DotMapDict"
        /\ At(configs[Self], <<c>>).id = At(BaseConfig, <<c>>).id

\* the class of the entries of each collection of the root (load.py 51-54)
EntryType(c) ==
    CASE c = "variables" -> "Variable"
      [] c = "datasets" -> "Dataset"
      [] c = "paths" -> "PathEntry"

\* the types that test_merge_tomls_preserves_types asserts of a configuration
TypesPreserved(cfg) ==
    /\ IsInstance(cfg, "NudbConfig")
    /\ \A c \in Collections :
          /\ At(cfg, <<c>>).k = "DotMapDict"
          /\ \A n \in 1..Len(At(cfg, <<c>>).m) :
                IsInstance(At(cfg, <<c>>).m[n][2], EntryType(c))
    /\ IsInstance(At(cfg, <<"options">>), "Options")

\* C11: a call that returns without error keeps the types of the configuration:
\* the root a NudbConfig, variables, datasets and paths DotMapDict collections
\* whose entries are Variable, Dataset and PathEntry records, options an Options
\* record.
C11_TypesPreserved ==
    [][(TypesPreserved(configs[Self]) /\ pc' = "returned" /\ err' = "")
        => TypesPreserved(configs'[Self])]_vars

\* the Variable entries of a configuration, while variables is still a collection
VariableEntries(cfg) ==
    IF At(cfg, <<"variables">>).k # "DotMapDict" THEN {}
    ELSE { At(cfg, <<"variables">>).m[n][2] : n \in 1..Len(At(cfg, <<"variables">>).m) }

\* C12: in every state reached by loading and then merging overrides, a Variable
\* whose unit is "utdatert" has an outdated_comment that is present and not blank
C12_UtdatertHasComment ==
    \A v \in VariableEntries(configs[Self]) :
        v.k = "model" => RequireOutdatedComment(v.m)

-----------------------------------------------------------------------------
(* The loader: load_pydantic_settings, _load_variables, _load_datasets,     *)
(* _iter_variable_paths, _expand_derived_label_variables and                *)
(* _expand_codelist_extras. A configuration directory is a listing, a       *)
(* function from file name to the parsed TOML of the file. Path.glob yields *)
(* the matching names in the order of the file system, which the loader     *)
(* takes as it comes: an order is an input of the loader.                   *)

StartsWith(cs, prefix) == Len(cs) >= Len(prefix) /\ SubSeq(cs, 1, Len(prefix)) = prefix

\* the names that cfg_dir.glob(prefix + "*.toml") yields
Glob(listing, prefix) ==
    {name \in DOMAIN listing :
        /\ Len(Chars(name)) >= Len(Chars(prefix)) + 5
        /\ StartsWith(Chars(name), Chars(prefix))
        /\ EndsWith(Chars(name), <<".", "t", "o", "m", "l">>)}

\* the orders in which a file system may list names
ListingOrders(names) ==
    {order \in [1..Cardinality(names) -> names] :
        \A a, b \in 1..Cardinality(names) : order[a] = order[b] => a = b}

IsNotDerivedLabel(name) == name # "variables_derived_label.toml"

\* _iter_variable_paths, for the order in which glob yields the paths
IterVariablePaths(order) == SelectSeq(order, IsNotDerivedLabel)

\* VariablesFile._inject_variable_names on the parsed TOML
InjectVariableNames(data) ==
    IF Has(data.m, "variables") /\ Get(data.m, "variables").k = "dict"
    THEN PyDict(Put(data.m, "variables",
                    PyDict([n \in 1..Len(Get(data.m, "variables").m) |->
                        <<Get(data.m, "variables").m[n][1],
                          IF Get(data.m, "variables").m[n][2].k = "dict"
                          THEN InjectName(Get(data.m, "variables").m[n][2],
                                          Get(data.m, "variables").m[n][1])
                          ELSE Get(data.m, "variables").m[n][2]>>])))
    ELSE data

EntriesValidate(cls, m) == [n \in 1..Len(m) |-> ModelValidate(cls, m[n][2])]

CollectionBuilt(cls, m, rs) ==
    IF AllOk(rs) THEN Ok(DotMapDict(cls, "", [n \in 1..Len(m) |-> <<m[n][1], rs[n].v>>]))
    ELSE Invalid

\* the schema of a DotMapDict[cls] field: an instance as it is, or a dict whose
\* values are validated as cls
CollectionValidate(cls, v) ==
    IF v.k = "DotMapDict" THEN Ok(v)
    ELSE IF v.k # "dict" THEN Invalid
    ELSE CollectionBuilt(cls, v.m, EntriesValidate(cls, v.m))

\* the file record of class cls with the one required collection under field
FileBuilt(cls, field, sort, coll) ==
    IF sort.ok /\ coll.ok
    THEN Ok(Model(cls, "", IF cls = "VariablesFile"
                           THEN << <<"variables_sort_unit", sort.v>>, <<field, coll.v>> >>
                           ELSE << <<field, coll.v>> >>))
    ELSE Invalid

\* VariablesFile.model_validate(data)
VariablesFileValidate(data) ==
    IF ~Has(data.m, "variables") THEN Invalid
    ELSE FileBuilt("VariablesFile", "variables",
                   FieldValidate("list[str]", TRUE, GetOr(data.m, "variables_sort_unit", PyNone)),
                   CollectionValidate("Variable", Get(InjectVariableNames(data).m, "variables")))

\* DatasetsFile.model_validate(data)
DatasetsFileValidate(data) ==
    IF ~Has(data.m, "datasets") THEN Invalid
    ELSE FileBuilt("DatasetsFile", "datasets", Ok(PyNone),
                   CollectionValidate("Dataset", Get(data.m, "datasets")))

\* PathsFile.model_validate(data)
PathsFileValidate(data) ==
    IF ~Has(data.m, "paths") THEN Invalid
    ELSE FileBuilt("PathsFile", "paths", Ok(PyNone),
                   CollectionValidate("PathEntry", Get(data.m, "paths")))

RECURSIVE PutAll(_, _, _)
\* for key, value in items: merged[key] = value, from the n-th item on
PutAll(m, items, n) ==
    IF n > Len(items) THEN m ELSE PutAll(Put(m, items[n][1], items[n][2]), items, n + 1)

\* the state of the loop of _load_variables after the file name validated as vf
VariablesFileRead(acc, name, vf) ==
    IF ~vf.ok THEN [acc EXCEPT !.err = TRUE, !.read = Append(acc.read, name)]
    ELSE [vars |-> PutAll(acc.vars, Get(vf.v.m, "variables").m, 1),
          sort |-> IF Get(vf.v.m, "variables_sort_unit").k # "none"
                   THEN Get(vf.v.m, "variables_sort_unit")
                   ELSE acc.sort,
          derived |-> IF name = "variables_derived.toml" THEN vf.v ELSE acc.derived,
          err |-> FALSE,
          read |-> Append(acc.read, name)]

RECURSIVE ReadVariablesFiles(_, _, _, _)
\* the loop of _load_variables from the n-th path on
ReadVariablesFiles(acc, listing, paths, n) ==
    IF n > Len(paths) \/ acc.err THEN acc
    ELSE ReadVariablesFiles(
             VariablesFileRead(acc, paths[n], VariablesFileValidate(listing[paths[n]])),
             listing, paths, n + 1)

\* isinstance(klass_codelist, int) and klass_codelist > 0
HasCodelist(variable) ==
    /\ GetOr(variable.m, "klass_codelist", PyNone).k = "int"
    /\ GetOr(variable.m, "klass_codelist", PyNone).i > 0

LabelName(name) == name \o "_label"

\* Variable(name=label_name, unit=variable.unit, dtype="STRING", derived_from=[name])
LabelVariable(name, variable) ==
    ModelValidate("Variable",
                  PyDict(<< <<"name", PyStr(LabelName(name))>>,
                            <<"unit", Get(variable.m, "unit")>>,
                            <<"dtype", PyStr("STRING")>>,
                            <<"derived_from", PyList(<<PyStr(name)>>)>> >>))

\* label_variables[label_name] = the Variable that was built as r, unless it raised
LabelAdded(acc, label_name, r) ==
    IF r.ok THEN [ok |-> TRUE, m |-> Put(acc.m, label_name, r.v)]
    ELSE [ok |-> FALSE, m |-> acc.m]

RECURSIVE ExpandLabels(_, _, _)
\* the loop of _expand_derived_label_variables from the n-th entry on
ExpandLabels(acc, m, n) ==
    IF n > Len(m) \/ ~acc.ok THEN acc
    ELSE ExpandLabels(IF HasCodelist(m[n][2])
                      THEN LabelAdded(acc, LabelName(m[n][1]), LabelVariable(m[n][1], m[n][2]))
                      ELSE acc,
                      m, n + 1)

\* _expand_derived_label_variables: [ok, m]; not ok is a ValidationError
ExpandDerivedLabelVariables(variables_file) ==
    ExpandLabels([ok |-> TRUE, m |-> <<>>], Get(variables_file.m, "variables").m, 1)

RECURSIVE AddMissing(_, _, _)
\* lines 208-210: every label whose key is not in the merged variables is added
AddMissing(m, items, n) ==
    IF n > Len(items) THEN m
    ELSE AddMissing(IF Has(m, items[n][1]) THEN m ELSE Append(m, items[n]), items, n + 1)

\* the pairs that _expand_codelist_extras holds for the code lists 91 and 131
PydanticExtras91 ==
    PyDict(<< <<"151", PyStr("DDR / Øst-Tyskland")>>,
              <<"135", PyStr("SSSR / Sovjetunionen")>>,
              <<"125", PyStr("Jugoslavia (til 2004) / Serbia og Montenegro (fra og med 2004)")>>,
              <<"142", PyStr("Tsjekkoslovakia")>> >>)

PydanticExtras131 ==
    PyDict(<< <<"2580", PyStr("360s definerte Utland")>>,
              <<"2111", PyStr("Longyearbyen arealplanområde")>> >>)

\* one pass of the loop of _expand_codelist_extras
ExpandVariableExtras(var) ==
    IF PyEq(GetOr(var.m, "klass_codelist", PyNone), PyInt(131))
    THEN SetAttr(var, "codelist_extras", PydanticExtras131)
    ELSE IF PyEq(GetOr(var.m, "klass_codelist", PyNone), PyInt(91))
    THEN SetAttr(var, "codelist_extras", PydanticExtras91)
    ELSE var

\* _expand_codelist_extras on the items of variables_file.variables
ExpandCodelistExtras(m) == [n \in 1..Len(m) |-> <<m[n][1], ExpandVariableExtras(m[n][2])>>]

LoadFailed(read) == [ok |-> FALSE, vars |-> <<>>, sort |-> PyNone, read |-> read]

\* lines 206-211, with the labels that _expand_derived_label_variables gave
LabelsMerged(r, labels) ==
    IF ~labels.ok THEN LoadFailed(r.read)
    ELSE [ok |-> TRUE, vars |-> ExpandCodelistExtras(AddMissing(r.vars, labels.m, 1)),
          sort |-> r.sort, read |-> r.read]

\* lines 202-211, after the loop over the files ended as r
VariablesMerged(r) ==
    IF r.err THEN LoadFailed(r.read)
    ELSE LabelsMerged(r, IF r.derived.k = "none" THEN [ok |-> TRUE, m |-> <<>>]
                         ELSE ExpandDerivedLabelVariables(r.derived))

\* _load_variables(cfg_dir), glob yielding the paths as order: [ok, vars, sort, read]
LoadVariables(listing, order) ==
    VariablesMerged(
        ReadVariablesFiles([vars |-> <<>>, sort |-> PyNone, derived |-> PyNone,
                            err |-> FALSE, read |-> <<>>],
                           listing, IterVariablePaths(order), 1))

\* the state of the loop of _load_datasets after the file name validated as df
DatasetsFileRead(acc, name, df) ==
    IF ~df.ok THEN [acc EXCEPT !.ok = FALSE, !.read = Append(acc.read, name)]
    ELSE [ok |-> TRUE, sets |-> PutAll(acc.sets, Get(df.v.m, "datasets").m, 1),
          read |-> Append(acc.read, name)]

RECURSIVE ReadDatasetsFiles(_, _, _, _)
\* the loop of _load_datasets from the n-th path on
ReadDatasetsFiles(acc, listing, paths, n) ==
    IF n > Len(paths) \/ ~acc.ok THEN acc
    ELSE ReadDatasetsFiles(
             DatasetsFileRead(acc, paths[n], DatasetsFileValidate(listing[paths[n]])),
             listing, paths, n + 1)

\* _load_datasets(cfg_dir), glob yielding the paths as order: [ok, sets, read]
LoadDatasets(listing, order) ==
    ReadDatasetsFiles([ok |-> TRUE, sets |-> <<>>, read |-> <<>>], listing, order, 1)

\* NudbConfig(...) of lines 252-260 from the parts that were loaded
Assembled(settings_toml, paths_file, options_toml, variables_file, dataset_file) ==
    IF ~(paths_file.ok /\ variables_file.ok /\ dataset_file.ok)
    THEN [ok |-> FALSE, v |-> PyNone,
          read |-> IF variables_file.ok THEN variables_file.read \o dataset_file.read
                   ELSE variables_file.read]
    ELSE [ok |-> TRUE,
          v |-> Model("NudbConfig", "settings",
                  << <<"dapla_team", Get(settings_toml.m, "dapla_team")>>,
                     <<"short_name", Get(settings_toml.m, "short_name")>>,
                     <<"variables_sort_unit", variables_file.sort>>,
                     <<"variables",
                       DotMapDict("Variable", "settings.variables", variables_file.vars)>>,
                     <<"datasets",
                       DotMapDict("Dataset", "settings.datasets", dataset_file.sets)>>,
                     <<"paths", [Get(paths_file.v.m, "paths") EXCEPT !.id = "settings.paths"]>>,
                     <<"options", Model("Options", "settings.options",
                                        Get(options_toml.m, "options").m)>> >>),
          read |-> variables_file.read \o dataset_file.read]

\* load_pydantic_settings() on the files of listing, the two globs yielding their
\* paths as vorder and dorder: [ok, v, read] with v the configuration and read
\* the variables and datasets files in the order they were read
LoadPydanticSettings(listing, vorder, dorder) ==
    Assembled(listing["settings.toml"], PathsFileValidate(listing["paths.toml"]),
              listing["options.toml"], LoadVariables(listing, vorder),
              LoadDatasets(listing, dorder))

-----------------------------------------------------------------------------
(* The configuration directories of the model. settings.toml, paths.toml,   *)
(* options.toml and datasets.toml are one valid file each; the variables    *)
(* files and the second datasets file vary and may be absent.               *)

LoadSettingsToml ==
    PyDict(<< <<"dapla_team", PyStr("utd-nudb")>>, <<"short_name", PyStr("nudb")>>,
              <<"utd_nacekoder", PyList(<<PyStr("85")>>)>> >>)

LoadPathsToml ==
    PyDict(<< <<"paths", PyDict(<< <<"local_daplalab",
                                     PyDict(<< <<"katalog", PyStr("/k")>> >>)>> >>)>> >>)

LoadOptionsToml ==
    PyDict(<< <<"options", PyDict(<< <<"warn_unsafe_derive", PyBool(TRUE)>> >>)>> >>)

Var(unit, dtype, more) == PyDict(<< <<"unit", PyStr(unit)>>, <<"dtype", PyStr(dtype)>> >> \o more)

MainVariablesTomls ==
    { PyDict(<< <<"variables_sort_unit", PyList(<<PyStr("p")>>)>>,
                <<"variables", PyDict(<<
                    <<"fnr", Var("p", "STRING", <<>>)>>,
                    <<"land", Var("p", "STRING",
                                  << <<"klass_codelist", PyInt(91)>>,
                                     <<"codelist_extras", PyDict(<< <<"a", PyStr("x")>> >>)>> >>)>>,
                    <<"nus_label", Var("v", "INTEGER", <<>>)>> >>)>> >>),
      Vars(<< <<"fnr", Var("p", "STRING",
                            << <<"codelist_extras", PyDict(<< <<"a", PyStr("x")>> >>)>> >>)>> >>) }

DerivedVariablesTomls ==
    { PyDict(<< <<"variables_sort_unit", PyList(<<PyStr("v")>>)>>,
                <<"variables", PyDict(<<
                    <<"nus", Var("v", "STRING", << <<"klass_codelist", PyInt(36)>>,
                                                   <<"derived_from", PyList(<<PyStr("fnr")>>)>> >>)>>,
                    <<"kom", Var("v", "STRING", << <<"klass_codelist", PyInt(131)>> >>)>>,
                    <<"cnt", Var("v", "INTEGER", << <<"klass_codelist", PyInt(0)>> >>)>>,
                    <<"fnr", Var("v", "STRING", <<>>)>> >>)>> >>),
      \* an outdated derived variable with a code list
      Vars(<< <<"gml", Var("utdatert", "STRING",
                            << <<"klass_codelist", PyInt(36)>>,
                               <<"outdated_comment", PyStr("x")>> >>)>> >>) }

OutdatedVariablesTomls ==
    { Vars(<< <<"fnr", Var("utdatert", "STRING", << <<"outdated_comment", PyStr("x")>> >>)>>,
              <<"nus", Var("utdatert", "STRING", << <<"outdated_comment", PyStr("x")>> >>)>> >>) }

LabelVariablesTomls ==
    { Vars(<< <<"nus_label", Var("b", "STRING", <<>>)>> >>) }

Dset(team, vs) ==
    PyDict(<< <<"team", PyStr(team)>>, <<"bucket", PyStr("b")>>, <<"path_glob", PyStr("g")>>,
              <<"variables", PyList(vs)>> >>)

LoadDatasetsToml ==
    PyDict(<< <<"datasets", PyDict(<< <<"igang", Dset("utd-nudb", <<PyStr("fnr")>>)>> >>)>> >>)

ExternalDatasetsTomls ==
    { PyDict(<< <<"datasets", PyDict(<< <<"igang", Dset("x", <<PyStr("nus")>>)>>,
                                        <<"ekstern", Dset("x", <<PyStr("fnr")>>)>> >>)>> >>) }

ConfigDirs ==
    { ("settings.toml" :> LoadSettingsToml) @@ ("paths.toml" :> LoadPathsToml)
        @@ ("options.toml" :> LoadOptionsToml) @@ ("datasets.toml" :> LoadDatasetsToml)
        @@ ("variables.toml" :> m) @@ File("variables_derived.toml", d)
        @@ File("variables_outdated.toml", o) @@ File("variables_derived_label.toml", l)
        @@ File("datasets_external.toml", e) :
        m \in MainVariablesTomls, d \in DerivedVariablesTomls \cup {NoFile},
        o \in OutdatedVariablesTomls \cup {NoFile}, l \in LabelVariablesTomls \cup {NoFile},
        e \in ExternalDatasetsTomls \cup {NoFile} }

\* the override directories merged into a configuration that was loaded
LoadEnvironments ==
    { [toml_dir |-> "ext", fs |-> ("/w/ext" :> File("variables.toml", v))] :
        v \in { Vars(<< <<"fnr", PyDict(<< <<"klass_codelist", PyInt(91)>> >>)>> >>),
                Vars(<< <<"by", Var("p", "STRING", << <<"klass_codelist", PyInt(131)>> >>)>> >>),
                \* an entry that carries its own name
                Vars(<< <<"fnr", PyDict(<< <<"name", PyStr("other")>> >>)>> >>) } }

-----------------------------------------------------------------------------
(* The state machine of a program that loads the configuration and then     *)
(* merges overrides into it.                                                *)

LoadInit ==
    /\ configs = <<>>
    /\ pc = "start"
    /\ call = NoCall
    /\ loaded = <<>>
    /\ warnings = <<>>
    /\ err = ""
    /\ merged = NoObject
    /\ ncalls = 0

\* settings = load_pydantic_settings(), the globs yielding vorder and dorder; a
\* ValidationError ends the program
LoadPydanticSettingsCall(listing, vorder, dorder) ==
    /\ pc = "start"
    /\ \E r \in {LoadPydanticSettings(listing, vorder, dorder)} :
          /\ configs' = IF r.ok THEN (Self :> r.v) ELSE configs
          /\ loaded' = r.read
          /\ err' = IF r.ok THEN "" ELSE "ValidationError"
          /\ merged' = IF r.ok THEN Self ELSE NoObject
          /\ pc' = IF r.ok THEN "returned" ELSE "failed"
    /\ call' = [toml_dir |-> "config_tomls", exists |-> {}, listing |-> listing]
    /\ UNCHANGED <<warnings, ncalls>>

LoadNext ==
    \/ \E listing \in ConfigDirs :
          \E vorder \in ListingOrders(Glob(listing, "variables")),
             dorder \in ListingOrders(Glob(listing, "datasets")) :
             LoadPydanticSettingsCall(listing, vorder, dorder)
    \/ \E env \in LoadEnvironments : MergeTomlsCall(env)
    \/ Resume

LoadSpec == LoadInit /\ [][LoadNext]_vars

\* the state in which load_pydantic_settings has just returned or raised
Loaded == pc \in {"returned", "failed"} /\ call.toml_dir = "config_tomls"

\* what the call would give had the paths been taken in lexical order
LoadedInLexicalOrder ==
    LoadPydanticSettings(call.listing, Sorted(Glob(call.listing, "variables")),
                         Sorted(Glob(call.listing, "datasets")))

\* C13: the partial files of a category are processed in lexical path order, so
\* that the loaded configuration (and whether the load fails) is the same for
\* every order in which the file system lists them
C13_LexicalOrder ==
    Loaded =>
        /\ (err = "") = LoadedInLexicalOrder.ok
        /\ err = "" => configs[Self] = LoadedInLexicalOrder.v
        /\ err = "" => loaded = LoadedInLexicalOrder.read

IsVariablesFile(name) == StartsWith(Chars(name), Chars("variables"))

\* merged_variables as the loop of _load_variables left it in the call that has
\* just ended, before the labels were added
MergedBeforeLabels ==
    ReadVariablesFiles([vars |-> <<>>, sort |-> PyNone, derived |-> PyNone,
                        err |-> FALSE, read |-> <<>>],
                       call.listing, SelectSeq(loaded, IsVariablesFile), 1).vars

\* the entries of the derived-variables source of the call, <<>> when there is none
DerivedEntries ==
    IF "variables_derived.toml" \in DOMAIN call.listing
    THEN Get(VariablesFileValidate(call.listing["variables_derived.toml"]).v.m, "variables").m
    ELSE <<>>

\* C14: after loading, every entry of the derived-variables source with a positive
\* klass_codelist has its {name}_label entry: a STRING Variable derived from
\* [name] when none existed, the existing entry otherwise; an entry whose
\* klass_codelist is absent or 0 adds none; and the pass never makes the load fail
C14_LabelSynthesis ==
    Loaded =>
        /\ err = ""
        /\ err = "" => \A n \in 1..Len(DerivedEntries) :
              LET name == DerivedEntries[n][1]
                  label == At(configs[Self], <<"variables", LabelName(name)>>)
              IN IF HasCodelist(DerivedEntries[n][2])
                 THEN IF Has(MergedBeforeLabels, LabelName(name))
                      THEN label = Get(MergedBeforeLabels, LabelName(name))
                      ELSE /\ IsInstance(label, "Variable")
                           /\ At(label, <<"name">>) = PyStr(LabelName(name))
                           /\ At(label, <<"dtype">>) = PyStr("STRING")
                           /\ At(label, <<"derived_from">>) = PyList(<<PyStr(name)>>)
                 ELSE label # Missing => Has(MergedBeforeLabels, LabelName(name))

\* the pairs that the augmentation holds for a klass_codelist value, <<>> for a
\* value it does not know
HardCodedExtras(klass_codelist) ==
    IF PyEq(klass_codelist, PyInt(91)) THEN PydanticExtras91.m
    ELSE IF PyEq(klass_codelist, PyInt(131)) THEN PydanticExtras131.m
    ELSE <<>>

\* whether the mapping extras holds every one of pairs
ContainsPairs(extras, pairs) ==
    /\ IsMappingLike(extras)
    /\ \A n \in 1..Len(pairs) : GetOr(extras.m, pairs[n][1], PyNone) = pairs[n][2]

\* the condition of the augmentation on one Variable
Augmented(v) ==
    IF HardCodedExtras(At(v, <<"klass_codelist">>)) # <<>>
    THEN ContainsPairs(At(v, <<"codelist_extras">>), HardCodedExtras(At(v, <<"klass_codelist">>)))
    ELSE At(v, <<"codelist_extras">>) \notin {PydanticExtras91, PydanticExtras131}

\* C15: in the configuration that load_pydantic_settings or merge_tomls returns,
\* every Variable whose klass_codelist is 91 or 131 carries the hard-coded pairs
\* of that id in codelist_extras, and no other Variable has them set
C15_CodelistAugmented ==
    (pc = "returned" /\ err = "") =>
        \A v \in VariableEntries(configs[Self]) : Augmented(v)

-----------------------------------------------------------------------------
(* config.expand_codelist of the Dynaconf-based loader *)

DynaconfExtras91 ==
    PyDict(<< <<"151", PyStr("DDR / Øst-Tyskland")>>,
              <<"135", PyStr("SSSR / Sovjetunionen")>> >>)

DynaconfExtras131 ==
    PyDict(<< <<"2580", PyStr("360s definerte Utland")>>,
              <<"2111", PyStr("Longyearbyen arealplanområde")>> >>)

\* expand_codelist(settings, var_name, klass_id) on the items of settings.variables
ExpandCodelist(variables, var_name, klass_id) ==
    IF PyEq(klass_id, PyInt(131))
    THEN Put(variables, var_name,
             SetAttr(Get(variables, var_name), "codelist_extras", DynaconfExtras131))
    ELSE IF PyEq(klass_id, PyInt(91))
    THEN Put(variables, var_name,
             SetAttr(Get(variables, var_name), "codelist_extras", DynaconfExtras91))
    ELSE variables

\* C16: the codelist_extras that the pydantic loader leaves on a variable with a
\* klass_codelist equal the ones that config.expand_codelist sets for that id
C16_SameAugmentations ==
    (Loaded /\ err = "") =>
        \A n \in 1..Len(At(configs[Self], <<"variables">>).m) :
            LET name == At(configs[Self], <<"variables">>).m[n][1]
                var == At(configs[Self], <<"variables">>).m[n][2]
            IN At(var, <<"klass_codelist">>).k # "none" =>
                  PyEq(At(var, <<"codelist_extras">>),
                       At(Get(ExpandCodelist(At(configs[Self], <<"variables">>).m, name,
                                             At(var, <<"klass_codelist">>)), name),
                          <<"codelist_extras">>))

-----------------------------------------------------------------------------
(* The consistency checks of the test suite. A derived_from graph is a dict *)
(* from variable name to the list of the names it is derived from: here the *)
(* items in key order, <<name, <<dependency, ...>> >>.                      *)

\* what a check gives: the bool it returns, or that it raised
Returned(b) == [raised |-> FALSE, v |-> b, variable |-> ""]

\* raise CyclicGraphError(... '{variable}' depends on itself!)
CyclicGraphError(variable) == [raised |-> TRUE, v |-> FALSE, variable |-> variable]

\* the loop "if from_is_cyclic: return True": the first result that is not False
\* ends the loop
FirstCyclic(r, rest) == IF r.raised \/ r.v THEN r ELSE rest

RECURSIVE variable_is_cyclic_depth_first_search(_, _, _, _)
RECURSIVE FromIsCyclic(_, _, _, _, _)

\* A search that reports a revisit by returning True in both modes.
RevisitReturnsTrue(variable, derived_graph, visited, fail_on_cyclic) ==
    IF variable \in visited THEN Returned(TRUE)
    ELSE IF ~Has(derived_graph, variable) THEN Returned(FALSE)
    ELSE FromIsCyclic(Get(derived_graph, variable), 1, derived_graph,
                      visited \cup {variable}, fail_on_cyclic)

\* the loop over derived_from (lines 28-39) from the n-th name on
FromIsCyclic(derived_from, n, derived_graph, visited_next, fail_on_cyclic) ==
    IF n > Len(derived_from) THEN Returned(FALSE)
    ELSE FirstCyclic(
             variable_is_cyclic_depth_first_search(derived_from[n], derived_graph,
                                                   visited_next, fail_on_cyclic),
             FromIsCyclic(derived_from, n + 1, derived_graph, visited_next, fail_on_cyclic))

\* visited is the set given, {} for None: "visited or set()" of the empty set is
\* the empty set
variable_is_cyclic_depth_first_search(variable, derived_graph, visited, fail_on_cyclic) ==
    IF variable \in visited
    THEN IF fail_on_cyclic THEN CyclicGraphError(variable) ELSE Returned(TRUE)
    ELSE IF ~Has(derived_graph, variable) THEN Returned(FALSE)
    ELSE FromIsCyclic(Get(derived_graph, variable), 1, derived_graph,
                      visited \cup {variable}, fail_on_cyclic)

RECURSIVE KeysAreCyclic(_, _, _)
\* the loop over derived_graph.keys() (lines 45-55) from the n-th key on
KeysAreCyclic(derived_graph, n, fail_on_cyclic) ==
    IF n > Len(derived_graph) THEN Returned(FALSE)
    ELSE FirstCyclic(
             variable_is_cyclic_depth_first_search(derived_graph[n][1], derived_graph,
                                                   {}, fail_on_cyclic),
             KeysAreCyclic(derived_graph, n + 1, fail_on_cyclic))

\* A check that follows the derivations of the first variable only.
IsCyclicFromFirstKey(derived_graph, fail_on_cyclic) ==
    IF derived_graph = <<>> THEN Returned(FALSE)
    ELSE variable_is_cyclic_depth_first_search(derived_graph[1][1], derived_graph,
                                               {}, fail_on_cyclic)

is_cyclic_depth_first_search(derived_graph, fail_on_cyclic) ==
    KeysAreCyclic(derived_graph, 1, fail_on_cyclic)

\* The graphs of the model: the variables a, b and c, each with or without a
\* derived_from list of at most MaxDeps different names; d is never a key.
GraphKeys == <<"a", "b", "c">>

GraphNames == {"a", "b", "c", "d"}

\* the lists of at most MaxDeps names, no name twice
DependencyLists ==
    {l \in UNION {[1..n -> GraphNames] : n \in 0..MaxDeps} :
        \A i, j \in 1..Len(l) : l[i] = l[j] => i = j}

GraphOf(keys, derived_from) ==
    LET IsKey(name) == name \in keys
    IN [n \in 1..Len(SelectSeq(GraphKeys, IsKey)) |->
          <<SelectSeq(GraphKeys, IsKey)[n], derived_from[SelectSeq(GraphKeys, IsKey)[n]]>>]

\* the sets of variables that have a derived_from list
KeySets == SUBSET {GraphKeys[n] : n \in 1..Len(GraphKeys)}

-----------------------------------------------------------------------------
(* The cross-reference checks of the test suite, on the items of            *)
(* settings.variables and settings.datasets.                                *)

\* the elements of "getattr(record, field, None) or []" as plain names
NamesOf(record, field) ==
    IF GetOr(record.m, field, PyNone).k # "list" THEN <<>>
    ELSE [n \in 1..Len(GetOr(record.m, field, PyNone).l) |->
             GetOr(record.m, field, PyNone).l[n].s]

Elements(list) == {list[n] : n \in 1..Len(list)}

\* the team whose datasets the check answers for
LocalTeam == "utd-nudb"

\* referenced_variables of test_all_dataset_variables_are_defined
ReferencedVariables(datasets) ==
    UNION { IF Get(datasets[n][2].m, "team") = PyStr(LocalTeam)
            THEN Elements(NamesOf(datasets[n][2], "variables"))
            ELSE {} : n \in 1..Len(datasets) }

\* A check that answers for the datasets of every team.
MissingDefinitionsOfAnyTeam(variables, datasets) ==
    UNION { Elements(NamesOf(datasets[n][2], "variables")) : n \in 1..Len(datasets) }
        \ Elements(Keys(variables))

\* missing_definitions of test_all_dataset_variables_are_defined
MissingDefinitions(variables, datasets) ==
    ReferencedVariables(datasets) \ Elements(Keys(variables))

IsNotIn(key, names) == key \notin names

\* missing of test_derived_join_keys_are_in_derived_from for one variable
MissingKeys(variable) ==
    LET IsMissing(key) == IsNotIn(key, Elements(NamesOf(variable, "derived_from")))
    IN SelectSeq(NamesOf(variable, "derived_join_keys"), IsMissing)

RECURSIVE MissingJoinKeysFrom(_, _)
\* the loop of test_derived_join_keys_are_in_derived_from from the n-th variable on
MissingJoinKeysFrom(variables, n) ==
    IF n > Len(variables) THEN <<>>
    ELSE (IF NamesOf(variables[n][2], "derived_join_keys") # <<>>
             /\ MissingKeys(variables[n][2]) # <<>>
          THEN << <<Get(variables[n][2].m, "name").s, MissingKeys(variables[n][2])>> >>
          ELSE <<>>)
         \o MissingJoinKeysFrom(variables, n + 1)

\* A check that names the offending variable with its first missing key only.
FirstMissingJoinKeys(variables) ==
    [n \in 1..Len(MissingJoinKeysFrom(variables, 1)) |->
        <<MissingJoinKeysFrom(variables, 1)[n][1],
          <<MissingJoinKeysFrom(variables, 1)[n][2][1]>> >>]

\* missing_join_keys of test_derived_join_keys_are_in_derived_from
MissingJoinKeys(variables) == MissingJoinKeysFrom(variables, 1)

\* The inputs of the checks: variables and datasets whose lists hold at most
\* MaxDeps different names out of a, b and c, or are absent.
CheckNames == {"a", "b", "c"}

NameLists ==
    {l \in UNION {[1..n -> CheckNames] : n \in 0..MaxDeps} :
        \A i, j \in 1..Len(l) : l[i] = l[j] => i = j}

\* a list field of a record: None, or a list of names
ListValues == {PyNone} \cup {PyList([n \in 1..Len(l) |-> PyStr(l[n])]) : l \in NameLists}

\* the variables named names, in the order of the alphabet, without derivations
Defined(names) ==
    LET IsDefined(name) == name \in names
    IN [n \in 1..Len(SelectSeq(<<"a", "b", "c">>, IsDefined)) |->
          <<SelectSeq(<<"a", "b", "c">>, IsDefined)[n],
            Validated("Variable",
                      << <<"name", PyStr(SelectSeq(<<"a", "b", "c">>, IsDefined)[n])>>,
                         <<"unit", PyStr("p")>>, <<"dtype", PyStr("STRING")>> >>)>>]

\* a dataset of a team with a variables list
DatasetOf(team, vs) ==
    Validated("Dataset", << <<"team", PyStr(team)>>, <<"bucket", PyStr("b")>>,
                            <<"path_glob", PyStr("g")>>, <<"variables", vs>> >>)

\* a derived variable with its join keys and the names it is derived from
DerivedVariable(name, join_keys, derived_from) ==
    Validated("Variable", << <<"name", PyStr(name)>>, <<"unit", PyStr("p")>>,
                             <<"dtype", PyStr("STRING")>>,
                             <<"derived_join_keys", join_keys>>,
                             <<"derived_from", derived_from>> >>)

Teams == {LocalTeam, "x"}

-----------------------------------------------------------------------------
(* The state machine of a run of one check on one input: call holds the     *)
(* check and its arguments, merged what it returned, err what it raised.    *)

CycleCall(derived_graph, fail_on_cyclic) ==
    [fn |-> "is_cyclic_depth_first_search", derived_graph |-> derived_graph,
     fail_on_cyclic |-> fail_on_cyclic]

ChecksInit ==
    /\ configs = <<>>
    /\ pc = "start"
    /\ \/ \E keys \in KeySets : \E derived_from \in [keys -> DependencyLists] :
             \E fail_on_cyclic \in BOOLEAN :
                call = CycleCall(GraphOf(keys, derived_from), fail_on_cyclic)
       \/ \E names \in SUBSET CheckNames : \E count \in 0..2 :
             \E teams \in [1..count -> Teams], lists \in [1..count -> ListValues] :
                call = [fn |-> "test_all_dataset_variables_are_defined",
                        variables |-> Defined(names),
                        datasets |-> [n \in 1..count |->
                                         <<GraphKeys[n], DatasetOf(teams[n], lists[n])>>]]
       \/ \E count \in 0..2 :
             \E keys \in [1..count -> ListValues], froms \in [1..count -> ListValues] :
                call = [fn |-> "test_derived_join_keys_are_in_derived_from",
                        variables |-> [n \in 1..count |->
                                          <<GraphKeys[n],
                                            DerivedVariable(GraphKeys[n], keys[n], froms[n])>>]]
    /\ loaded = <<>>
    /\ warnings = <<>>
    /\ err = ""
    /\ merged = NoObject
    /\ ncalls = 0

\* is_cyclic_depth_first_search(derived_graph, fail_on_cyclic)
IsCyclicCall ==
    /\ pc = "start"
    /\ call.fn = "is_cyclic_depth_first_search"
    /\ \E r \in {is_cyclic_depth_first_search(call.derived_graph, call.fail_on_cyclic)} :
          /\ merged' = IF r.raised THEN NoObject ELSE PyBool(r.v)
          /\ err' = IF r.raised THEN "CyclicGraphError" ELSE ""
          /\ warnings' = IF r.raised THEN <<r.variable>> ELSE <<>>
    /\ pc' = "returned"
    /\ UNCHANGED <<configs, call, loaded, ncalls>>

\* test_all_dataset_variables_are_defined: merged is missing_definitions, and
\* the assertion fails unless it is empty
DatasetVariablesCheck ==
    /\ pc = "start"
    /\ call.fn = "test_all_dataset_variables_are_defined"
    /\ merged' = MissingDefinitions(call.variables, call.datasets)
    /\ err' = IF MissingDefinitions(call.variables, call.datasets) # {}
              THEN "AssertionError" ELSE ""
    /\ pc' = "returned"
    /\ UNCHANGED <<configs, call, loaded, warnings, ncalls>>

\* test_derived_join_keys_are_in_derived_from: merged is missing_join_keys, and
\* the assertion fails unless it is empty
JoinKeysCheck ==
    /\ pc = "start"
    /\ call.fn = "test_derived_join_keys_are_in_derived_from"
    /\ merged' = MissingJoinKeys(call.variables)
    /\ err' = IF MissingJoinKeys(call.variables) # <<>> THEN "AssertionError" ELSE ""
    /\ pc' = "returned"
    /\ UNCHANGED <<configs, call, loaded, warnings, ncalls>>

ChecksNext ==
    \/ IsCyclicCall
    \/ DatasetVariablesCheck
    \/ JoinKeysCheck

ChecksSpec == ChecksInit /\ [][ChecksNext]_vars

\* the names that name is derived from, directly
DerivedFrom(derived_graph, name) ==
    IF Has(derived_graph, name)
    THEN {Get(derived_graph, name)[n] : n \in 1..Len(Get(derived_graph, name))}
    ELSE {}

RECURSIVE Closure(_, _)
\* the names reached from the set names by derivations, names included
Closure(derived_graph, names) ==
    IF UNION {DerivedFrom(derived_graph, x) : x \in names} \subseteq names THEN names
    ELSE Closure(derived_graph, names \cup UNION {DerivedFrom(derived_graph, x) : x \in names})

\* whether some variable is derived from itself, directly or through others
HasDirectedCycle(derived_graph) ==
    \E n \in 1..Len(derived_graph) :
        derived_graph[n][1] \in Closure(derived_graph,
                                        DerivedFrom(derived_graph, derived_graph[n][1]))

CycleCheckReturned ==
    pc = "returned" /\ call.fn = "is_cyclic_depth_first_search" /\ ~call.fail_on_cyclic

\* C17: is_cyclic_depth_first_search returns True if and only if the graph has a
\* directed cycle, a self-loop included; a name that is only a dependency and a
\* dependency shared by two paths do not make it return True
C17_CycleCheck ==
    CycleCheckReturned =>
        /\ err = ""
        /\ (merged = PyBool(TRUE)) <=> HasDirectedCycle(call.derived_graph)

\* a cycle that the first variable is not on is found, below a shared dependency
C17_Witness ==
    /\ CycleCheckReturned
    /\ merged = PyBool(TRUE)
    /\ call.derived_graph = << <<"a", <<"b", "c">> >>, <<"b", <<"c">> >>, <<"c", <<"c", "d">> >> >>

DatasetVariablesChecked ==
    pc = "returned" /\ call.fn = "test_all_dataset_variables_are_defined"

\* whether some dataset of the team lists the variable name
ListedBy(team, name, datasets) ==
    \E n \in 1..Len(datasets) :
        /\ At(datasets[n][2], <<"team">>) = PyStr(team)
        /\ At(datasets[n][2], <<"variables">>).k = "list"
        /\ PyStr(name) \in Elements(At(datasets[n][2], <<"variables">>).l)

\* C18: the check reports exactly the names that a dataset of the local team
\* lists and the variable collection does not hold: every one of them, and none
\* that only datasets of other teams list; it fails when there is one
C18_DatasetVariablesReported ==
    DatasetVariablesChecked =>
        /\ \A name \in CheckNames :
              name \in merged <=>
                  /\ ListedBy(LocalTeam, name, call.datasets)
                  /\ ~Has(call.variables, name)
        /\ merged \subseteq CheckNames
        /\ (err = "AssertionError") <=> (merged # {})

\* two offenders are reported, and a third name that another team lists is not
C18_Witness ==
    /\ DatasetVariablesChecked
    /\ merged = {"a", "b"}
    /\ ListedBy("x", "c", call.datasets)
    /\ ~ListedBy(LocalTeam, "c", call.datasets)
    /\ ~Has(call.variables, "c")

JoinKeysChecked ==
    pc = "returned" /\ call.fn = "test_derived_join_keys_are_in_derived_from"

\* the join keys of a variable that its derived_from does not hold
Offending(variable) ==
    IF At(variable, <<"derived_join_keys">>).k # "list" THEN {}
    ELSE {key \in Elements(At(variable, <<"derived_join_keys">>).l) :
             \/ At(variable, <<"derived_from">>).k # "list"
             \/ key \notin Elements(At(variable, <<"derived_from">>).l)}

\* C19: the check reports a variable if and only if one of its derived_join_keys
\* is not in its derived_from, and reports it once, with every such key
C19_JoinKeysReported ==
    JoinKeysChecked =>
        /\ \A n \in 1..Len(call.variables) :
              IF Offending(call.variables[n][2]) = {}
              THEN \A r \in 1..Len(merged) : merged[r][1] # call.variables[n][1]
              ELSE \E r \in 1..Len(merged) :
                     /\ merged[r][1] = call.variables[n][1]
                     /\ {PyStr(key) : key \in Elements(merged[r][2])}
                            = Offending(call.variables[n][2])
                     /\ \A q \in 1..Len(merged) : merged[q][1] = merged[r][1] => q = r
        /\ \A r \in 1..Len(merged) : Has(call.variables, merged[r][1])
        /\ (err = "AssertionError") <=> (merged # <<>>)

\* a variable with two join keys and no derived_from is reported with both, beside
\* a variable that lacks one of its keys
C19_Witness ==
    /\ JoinKeysChecked
    /\ Len(merged) = 2
    /\ At(call.variables[1][2], <<"derived_from">>) = PyNone
    /\ merged[1] = <<"a", <<"b", "c">> >>
    /\ At(call.variables[2][2], <<"derived_from">>) = PyList(<<PyStr("a")>>)
    /\ merged[2] = <<"b", <<"c">> >>

-----------------------------------------------------------------------------
(* The access layer: DotMap.__getitem__ and DotMapDict.__getitem__. A       *)
(* DotMap is a wrapper of a dict (k = "DotMap", m the items of _data) or a  *)
(* pydantic model (k = "model", m its fields). A bound method is a value of *)
(* kind "method".                                                           *)

DotMapOf(data) == Val("DotMap", "", "", "", 0, <<>>, data)

Method(name) == Val("method", "", "", name, 0, <<>>, <<>>)

\* isinstance(key, int): a bool is an int
IsIntKey(key) == key.k \in {"int", "bool"}

\* names that normal attribute lookup finds on the class of a DotMap, before
\* __getattr__ is asked: the methods of DotMap and, for a model, of BaseModel
\* (the ones the model needs; the classes have more)
ClassAttributes(obj) ==
    {"keys", "items", "values", "get", "_as_mapping"}
        \cup (IF obj.k = "model" THEN {"model_dump", "model_validate"} ELSE {})

AttributeError == [ok |-> FALSE, v |-> PyNone]

\* getattr(self, name) on a DotMap: a field of the model, an attribute set on the
\* instance (the pairs of obj.l), an attribute of the class, the _data of a
\* wrapper, or __getattr__ (lines 46-67)
GetAttr(obj, name) ==
    IF obj.k = "model" /\ Has(obj.m, name) THEN Ok(Get(obj.m, name))
    ELSE IF Has(obj.l, name) THEN Ok(Get(obj.l, name))
    ELSE IF name \in ClassAttributes(obj) THEN Ok(Method(name))
    ELSE IF obj.k = "DotMap" /\ name = "_data" THEN Ok(PyDict(obj.m))
    ELSE IF obj.k = "DotMap" /\ Has(obj.m, name) THEN Ok(Get(obj.m, name))
    ELSE AttributeError

\* what a subscript gives: the value, or the exception it raised
Value(v) == [err |-> "", v |-> v]

Raised(exception) == [err |-> exception, v |-> PyNone]

\* list(keys)[i]: from the end for a negative i; not ok is IndexError
PyIndex(keys, i) ==
    IF 0 <= i /\ i < Len(keys) THEN [ok |-> TRUE, v |-> keys[i + 1]]
    ELSE IF i < 0 /\ -i <= Len(keys) THEN [ok |-> TRUE, v |-> keys[Len(keys) + i + 1]]
    ELSE [ok |-> FALSE, v |-> ""]

\* lines 93-99: the attribute, else the entry of _as_mapping(), else KeyError
AttributeOrEntry(obj, key_str, attribute) ==
    IF attribute.ok THEN Value(attribute.v)
    ELSE IF Has(obj.m, key_str) THEN Value(Get(obj.m, key_str))
    ELSE Raised("KeyError")

\* DotMap.__getitem__ once key_str is known
DotMapLookup(obj, key_str) == AttributeOrEntry(obj, key_str, GetAttr(obj, key_str))

\* DotMap.__getitem__(self, key)
DotMapGetItem(obj, key) ==
    IF IsIntKey(key)
    THEN IF PyIndex(Keys(obj.m), key.i).ok
         THEN DotMapLookup(obj, PyIndex(Keys(obj.m), key.i).v)
         ELSE Raised("IndexError")
    ELSE IF key.k = "str" THEN DotMapLookup(obj, key.s)
    ELSE Raised("TypeError")

\* lines 254-257: self._data[key], else KeyError
DataEntry(obj, key_str) ==
    IF Has(obj.m, key_str) THEN Value(Get(obj.m, key_str)) ELSE Raised("KeyError")

\* DotMapDict.__getitem__(self, key)
DotMapDictGetItem(obj, key) ==
    IF IsIntKey(key)
    THEN IF PyIndex(Keys(obj.m), key.i).ok
         THEN DataEntry(obj, PyIndex(Keys(obj.m), key.i).v)
         ELSE Raised("IndexError")
    ELSE IF key.k # "str" THEN Raised("TypeError")
    ELSE DataEntry(obj, key.s)

\* obj[key]
GetItem(obj, key) ==
    IF obj.k = "DotMapDict" THEN DotMapDictGetItem(obj, key) ELSE DotMapGetItem(obj, key)

-----------------------------------------------------------------------------
(* Writes and the other reads of the access layer. The outcome of a write   *)
(* is [err, v]: the exception raised ("" for none) and the object afterwards.*)
(* The attributes set on a DotMap instance itself are the pairs of its l.   *)

Written(obj) == [err |-> "", v |-> obj]

Failed(exception, obj) == [err |-> exception, v |-> obj]

\* object.__setattr__(self, name, value)
ObjectSetAttr(obj, name, value) == [obj EXCEPT !.l = Put(obj.l, name, value)]

\* A BaseModel.__setattr__ that answers an undeclared name with AttributeError.
BaseModelSetAttrAttributeError(obj, name, value) ==
    IF name \in FieldNames(obj.cls) THEN Written(SetAttr(obj, name, value))
    ELSE Failed("AttributeError", obj)

\* BaseModel.__setattr__ for a public name, without validate_assignment and with
\* extra fields not allowed: a declared field is assigned as given, any other
\* name is ValueError('"Options" object has no field "x"')
BaseModelSetAttr(obj, name, value) ==
    IF name \in FieldNames(obj.cls) THEN Written(SetAttr(obj, name, value))
    ELSE Failed("ValueError", obj)

\* setattr(self, name, value) on a DotMap: a wrapper has no __setattr__ of its own
PySetAttr(obj, name, value) ==
    IF obj.k = "model" THEN BaseModelSetAttr(obj, name, value)
    ELSE Written(ObjectSetAttr(obj, name, value))

\* lines 122-128: the fallback into the _data of the instance
StoreInData(obj, key_str, value) ==
    IF obj.k = "DotMap" THEN [obj EXCEPT !.m = Put(obj.m, key_str, value)]
    ELSE ObjectSetAttr(obj, "_data",
                       PyDict(Put(GetOr(obj.l, "_data", PyDict(<<>>)).m, key_str, value)))

\* lines 119-128 once setattr(self, key_str, value) ended as r
SetOrStore(obj, key_str, value, r) ==
    IF r.err = "AttributeError" THEN Written(StoreInData(obj, key_str, value)) ELSE r

\* DotMap.__setitem__ once key_str is known
DotMapAssign(obj, key_str, value) ==
    SetOrStore(obj, key_str, value, PySetAttr(obj, key_str, value))

\* whether self.<name> is still the method of the class: an attribute of that
\* name set on the instance is found first, and calling it is TypeError
Callable(obj, name) == ~Has(obj.l, name)

\* list(self.keys()): [ok, v], not ok is TypeError
KeysOf(obj) ==
    IF obj.k = "DotMapDict" THEN Ok(Keys(obj.m))
    ELSE IF Callable(obj, "keys") /\ Callable(obj, "_as_mapping") THEN Ok(Keys(obj.m))
    ELSE Invalid

\* lines 113-114 once self.keys() ended as keys
DotMapAssignAt(obj, keys, i, value) ==
    IF ~keys.ok THEN Failed("TypeError", obj)
    ELSE IF PyIndex(keys.v, i).ok THEN DotMapAssign(obj, PyIndex(keys.v, i).v, value)
    ELSE Failed("IndexError", obj)

\* DotMap.__setitem__(self, key, value)
DotMapSetItem(obj, key, value) ==
    IF IsIntKey(key) THEN DotMapAssignAt(obj, KeysOf(obj), key.i, value)
    ELSE IF key.k = "str" THEN DotMapAssign(obj, key.s, value)
    ELSE Failed("TypeError", obj)

\* line 265 once self._data[key] = self._coerce_value(value) ended as r
Coerced(obj, r) == IF r.ok THEN Written(r.v) ELSE Failed("ValidationError", obj)

\* DotMapDict.__setitem__(self, key, value)
DotMapDictSetItem(obj, key, value) ==
    IF IsIntKey(key)
    THEN IF PyIndex(Keys(obj.m), key.i).ok
         THEN Coerced(obj, SetItem(obj, PyIndex(Keys(obj.m), key.i).v, value))
         ELSE Failed("IndexError", obj)
    ELSE IF key.k # "str" THEN Failed("TypeError", obj)
    ELSE Coerced(obj, SetItem(obj, key.s, value))

\* obj[key] = value
SetItemOf(obj, key, value) ==
    IF obj.k = "DotMapDict" THEN DotMapDictSetItem(obj, key, value)
    ELSE DotMapSetItem(obj, key, value)

\* d.name on a DotMapDict: the attributes of the class, then __getattr__
DotMapDictGetAttr(obj, name) ==
    IF name \in {"keys", "items", "values", "get", "_coerce_value"} THEN Ok(Method(name))
    ELSE IF Has(obj.m, name) THEN Ok(Get(obj.m, name))
    ELSE AttributeError

\* what the attribute lookup r gives to the caller
Looked(r) == IF r.ok THEN Value(r.v) ELSE Raised("AttributeError")

\* obj.name
AttributeRead(obj, name) ==
    IF obj.k = "DotMapDict" THEN Looked(DotMapDictGetAttr(obj, name))
    ELSE Looked(GetAttr(obj, name))

\* lines 177-180 once getattr(self, key) ended as attribute
AttributeOrDefault(obj, key, default, attribute) ==
    IF attribute.ok THEN Value(attribute.v)
    ELSE IF ~Callable(obj, "_as_mapping") THEN Raised("TypeError")
    ELSE Value(GetOr(obj.m, key, default))

\* DotMap.get(self, key, default)
DotMapGet(obj, key, default) ==
    IF ~Callable(obj, "get") THEN Raised("TypeError")
    ELSE AttributeOrDefault(obj, key, default, GetAttr(obj, key))

\* obj.get(key, default)
GetOf(obj, key, default) ==
    IF obj.k = "DotMapDict" THEN Value(GetOr(obj.m, key, default))
    ELSE DotMapGet(obj, key, default)

\* key in obj
Contains(obj, key) ==
    IF key.k # "str" THEN FALSE
    ELSE IF obj.k = "model" THEN key.s \in FieldNames(obj.cls)
    ELSE Has(obj.m, key.s)

\* obj.name, obj[name], obj.get(name), name in obj and list(obj.keys())
ReadModes(obj, key) ==
    [attribute |-> AttributeRead(obj, key.s),
     item |-> GetItem(obj, key),
     get |-> GetOf(obj, key.s, PyNone),
     contains |-> Contains(obj, key),
     keys |-> KeysOf(obj)]

\* The objects and keys of the model: mappings of at most MaxKeys of the keys a, b
\* and keys to 1 or 2, wrapped as DotMap and as DotMapDict, and a PathEntry.
StoreKeys == {"a", "b", "keys"}

Stores ==
    {m \in UNION {[1..n -> StoreKeys \X {PyInt(1), PyInt(2)}] : n \in 0..MaxKeys} :
        \A i, j \in 1..Len(m) : m[i][1] = m[j][1] => i = j}

Subscripted ==
    {DotMapOf(m) : m \in Stores} \cup {DotMapDict("", "", m) : m \in Stores}
        \cup {BasePaths[1][2]}

Subscripts ==
    {PyStr(name) : name \in {"a", "b", "c", "keys", "katalog"}}
        \cup {PyInt(i) : i \in -1..MaxKeys}
        \cup {PyBool(TRUE), PyFloat(1), PyNone, PyList(<<PyInt(0)>>)}

\* the options block of the configuration
BaseOptions == Get(BaseConfig.m, "options")

Objects == Subscripted \cup {BaseOptions}

AssignedKeys ==
    {PyStr(name) : name \in {"a", "c", "keys", "get", "warn_unsafe_derive",
                             "non_existant_field"}}
        \cup {PyInt(0), PyInt(MaxKeys), PyNone}

AssignedValues == {PyInt(3), PyBool(FALSE)}

ReadKeys ==
    {PyStr(name) : name \in {"a", "b", "c", "keys", "katalog", "warn_unsafe_derive"}}

-----------------------------------------------------------------------------
(* The state machine of one access: call holds the object as it is before   *)
(* the call, the key and the value; configs.self is the object after a      *)
(* write, merged the value returned or what the reads gave, err the         *)
(* exception raised.                                                        *)

AccessInit ==
    /\ configs = <<>>
    /\ pc = "start"
    /\ \/ \E obj \in Subscripted, key \in Subscripts :
             call = [fn |-> "__getitem__", self |-> obj, key |-> key]
       \/ \E obj \in Objects, key \in AssignedKeys, value \in AssignedValues :
             call = [fn |-> "__setitem__", self |-> obj, key |-> key, value |-> value]
       \/ \E obj \in Objects, key \in AssignedKeys, value \in AssignedValues :
             /\ obj.k # "DotMapDict"
             /\ key.k = "str"
             /\ call = [fn |-> "__setattr__", self |-> obj, key |-> key, value |-> value]
       \/ \E obj \in Objects, key \in ReadKeys :
             call = [fn |-> "read", self |-> obj, key |-> key]
    /\ loaded = <<>>
    /\ warnings = <<>>
    /\ err = ""
    /\ merged = NoObject
    /\ ncalls = 0

\* call.self[call.key]
GetItemCall ==
    /\ pc = "start"
    /\ call.fn = "__getitem__"
    /\ \E r \in {GetItem(call.self, call.key)} :
          /\ merged' = IF r.err = "" THEN r.v ELSE NoObject
          /\ err' = r.err
    /\ pc' = "returned"
    /\ UNCHANGED <<configs, call, loaded, warnings, ncalls>>

\* the caller after the write ended as r: it reads the key back if it is a name
\* and the write raised nothing
WriteEnded(r) ==
    /\ configs' = ("self" :> r.v)
    /\ err' = r.err
    /\ pc' = IF r.err = "" /\ call.key.k = "str" THEN "written" ELSE "returned"
    /\ UNCHANGED <<call, loaded, warnings, merged, ncalls>>

\* call.self[call.key] = call.value
SetItemCall ==
    /\ pc = "start"
    /\ call.fn = "__setitem__"
    /\ WriteEnded(SetItemOf(call.self, call.key, call.value))

\* call.self.<call.key> = call.value
SetAttrCall ==
    /\ pc = "start"
    /\ call.fn = "__setattr__"
    /\ WriteEnded(PySetAttr(call.self, call.key.s, call.value))

\* the reads of call.key on the object as it is now
ReadCall ==
    /\ \/ pc = "start" /\ call.fn = "read" /\ merged' = ReadModes(call.self, call.key)
       \/ pc = "written" /\ merged' = ReadModes(configs.self, call.key)
    /\ pc' = "read"
    /\ UNCHANGED <<configs, call, loaded, warnings, err, ncalls>>

AccessNext ==
    \/ GetItemCall
    \/ SetItemCall
    \/ SetAttrCall
    \/ ReadCall

AccessSpec == AccessInit /\ [][AccessNext]_vars

\* C20: on a DotMap and on a DotMapDict, a string key that is neither a typed field
\* nor in the mapping store raises KeyError, a key that is neither a string nor an
\* integer raises TypeError, and an integer i gives the value of the i-th key of
\* keys()
C20_SubscriptErrors ==
    (pc = "returned" /\ call.fn = "__getitem__") =>
        /\ (call.key.k = "str" /\ ~Has(call.self.m, call.key.s)) => err = "KeyError"
        /\ (call.key.k # "str" /\ ~IsIntKey(call.key)) => err = "TypeError"
        /\ (call.key.k = "int" /\ 0 <= call.key.i /\ call.key.i < Len(call.self.m)) =>
              /\ err = ""
              /\ merged = call.self.m[call.key.i + 1][2]

\* C21: assigning by subscript to a flag name that Options does not declare
\* raises ValueError ("has no field") and leaves the options as they were;
\* assigning the declared flag warn_unsafe_derive, by subscript or by attribute,
\* raises nothing and the read that follows gives the value assigned
C21_OptionsWriteGuard ==
    call.fn \in {"__setitem__", "__setattr__"} /\ call.self = BaseOptions /\ call.key.k = "str" =>
        /\ (pc \in {"written", "returned", "read"} /\ call.fn = "__setitem__"
              /\ call.key.s \notin FieldNames("Options")) =>
              /\ err = "ValueError"
              /\ pc = "returned"
              /\ configs.self = call.self
        /\ (pc \in {"written", "returned", "read"} /\ call.key.s = "warn_unsafe_derive") =>
              /\ err = ""
              /\ pc # "returned"
        /\ (pc = "read" /\ call.key.s = "warn_unsafe_derive") =>
              /\ merged.attribute = Value(call.value)
              /\ merged.item = Value(call.value)

\* options["non_existant_field"] = False has raised ValueError
C21_Witness ==
    /\ pc = "returned"
    /\ call.fn = "__setitem__"
    /\ call.self = BaseOptions
    /\ call.key = PyStr("non_existant_field")
    /\ call.value = PyBool(FALSE)
    /\ err = "ValueError"
    /\ configs.self = BaseOptions

\* C22: after d[k] = v on a DotMap that wraps a raw mapping, k is a member of d,
\* is among d.keys(), and d[k] and d.get(k) give v
C22_WriteThenRead ==
    (pc = "read" /\ call.fn = "__setitem__" /\ call.self.k = "DotMap") =>
        /\ merged.contains
        /\ merged.keys.ok
        /\ \E n \in 1..Len(merged.keys.v) : merged.keys.v[n] = call.key.s
        /\ merged.item = Value(call.value)
        /\ merged.get = Value(call.value)

\* C28: for a key k of a DotMapDict or of the mapping of a DotMap wrapper, d.k,
\* d[k] and d.get(k) all give the value stored under k; and for every name k,
\* k in d is true exactly when d[k] does not raise
C28_ReadModesAgree ==
    (pc = "read" /\ call.fn = "read" /\ call.self.k \in {"DotMap", "DotMapDict"}) =>
        /\ Has(call.self.m, call.key.s) =>
              /\ merged.attribute = Value(Get(call.self.m, call.key.s))
              /\ merged.item = Value(Get(call.self.m, call.key.s))
              /\ merged.get = Value(Get(call.self.m, call.key.s))
        /\ merged.contains <=> merged.item.err = ""

-----------------------------------------------------------------------------
(* The import of the package: the module body of nudb_config/__init__.py    *)
(* sets __version__. call holds what the environment has installed and      *)
(* whether the interpreter was given warning options, loaded the names      *)
(* version() was asked for, in order, warnings what warnings.warn was       *)
(* called with, configs the warning filters installed, merged __version__   *)
(* ("" until it is set).                                                    *)

PackageNotFoundError == "PackageNotFoundError"

\* __name__ of the package, and the name of its distribution
PackageName == "nudb_config"

DistributionName == "ssb-nudb-config"

\* importlib.metadata.version(dist_name): [ok, v], not ok is the exception
version(installed, dist_name) ==
    IF installed[dist_name] = PackageNotFoundError THEN Invalid
    ELSE Ok(installed[dist_name])

MissingVersionWarning == [category |-> "MissingVersionWarning"]

DefaultVersion == "0.0.0"

Versions == {"0.0.0", "0.9.0", "1.0.0", "1.2.3", "2.0.0", "9.9.9"}

ImportInit ==
    /\ configs = <<>>
    /\ pc = "import"
    /\ \E installed \in [{PackageName, DistributionName} -> Versions \cup {PackageNotFoundError}],
          warnoptions \in BOOLEAN :
          call = [fn |-> "import", installed |-> installed, warnoptions |-> warnoptions]
    /\ loaded = <<>>
    /\ warnings = <<>>
    /\ err = ""
    /\ merged = NoObject
    /\ ncalls = 0

\* the lookup of dist_name ended as r: __version__ is bound, or control goes to
\* the handler at otherwise
Looked_up(dist_name, r, otherwise) ==
    /\ loaded' = Append(loaded, dist_name)
    /\ merged' = IF r.ok THEN r.v ELSE merged
    /\ pc' = IF r.ok THEN "imported" ELSE otherwise
    /\ UNCHANGED <<configs, call, warnings, err, ncalls>>

\* line 15: __version__ = version(__name__)
LookupPackageName ==
    /\ pc = "import"
    /\ Looked_up(PackageName, version(call.installed, PackageName), "fallback")

\* lines 16-17: __version__ = version("ssb-nudb-config")
LookupDistributionName ==
    /\ pc = "fallback"
    /\ Looked_up(DistributionName, version(call.installed, DistributionName), "missing")

\* A handler that sets the default without warning.
DefaultVersionSilently ==
    /\ pc = "missing"
    /\ merged' = DefaultVersion
    /\ pc' = "imported"
    /\ UNCHANGED <<configs, call, loaded, warnings, err, ncalls>>

\* lines 19-32: the handler of the outer try
WarnAndDefault ==
    /\ pc = "missing"
    /\ configs' = IF call.warnoptions THEN configs ELSE <<"default">>
    /\ warnings' = Append(warnings, MissingVersionWarning)
    /\ merged' = DefaultVersion
    /\ pc' = "imported"
    /\ UNCHANGED <<call, loaded, err, ncalls>>

ImportNext ==
    \/ LookupPackageName
    \/ LookupDistributionName
    \/ WarnAndDefault

ImportSpec == ImportInit /\ [][ImportNext]_vars

Installed(dist_name) == call.installed[dist_name] # PackageNotFoundError

\* C23: version() is asked for "nudb_config" first and for "ssb-nudb-config" only
\* after that lookup failed; __version__ is the first lookup that succeeds, and
\* then no MissingVersionWarning is emitted; the warning is emitted and
\* __version__ is "0.0.0" exactly when both lookups fail
C23_VersionResolution ==
    /\ loaded \in {<<>>, <<PackageName>>, <<PackageName, DistributionName>>}
    /\ Len(loaded) = 2 => ~Installed(PackageName)
    /\ pc = "imported" =>
          /\ Installed(PackageName) => merged = call.installed[PackageName]
          /\ (~Installed(PackageName) /\ Installed(DistributionName)) =>
                merged = call.installed[DistributionName]
          /\ (Installed(PackageName) \/ Installed(DistributionName)) => warnings = <<>>
          /\ (warnings = <<MissingVersionWarning>> /\ merged = DefaultVersion)
                <=> (~Installed(PackageName) /\ ~Installed(DistributionName))

\* the fallback of the test: the first lookup failed, the second gave 9.9.9
C23_Witness ==
    /\ pc = "imported"
    /\ loaded = <<PackageName, DistributionName>>
    /\ merged = "9.9.9"
    /\ warnings = <<>>

-----------------------------------------------------------------------------
(* The order in which a call applies the files of its directory *)

CategoryOrder == <<"settings.toml", "variables.toml", "datasets.toml", "paths.toml">>

Rank(name) == CHOOSE n \in 1..Len(CategoryOrder) : CategoryOrder[n] = name

\* the file of the call's directory that holds toml
FileOf(listing, toml) == CHOOSE name \in DOMAIN listing : listing[name] = toml

\* C24: a call applies the files of its directory in the order settings,
\* variables, datasets, paths; and where two files set the same key the
\* configuration holds the value of the file that is later in that order
C24_OverrideOrder ==
    [][(pc' = "returned" /\ err' = "")
        => \A i, j \in 1..Len(loaded') :
              Rank(FileOf(call'.listing, loaded'[i])) < Rank(FileOf(call'.listing, loaded'[j]))
              => /\ i < j
                 /\ \A p \in LeafPaths(loaded'[i]) \cap LeafPaths(loaded'[j]) :
                       At(configs'[Self], p) = At(loaded'[j], p)]_vars

\* the keys that the override toml brings into the collection c of cfg with a
\* mapping that has no name
NewUnnamed(cfg, toml, c) ==
    IF At(cfg, <<c>>).k = "DotMapDict" /\ At(toml, <<c>>).k = "dict"
    THEN {key \in {At(toml, <<c>>).m[n][1] : n \in 1..Len(At(toml, <<c>>).m)} :
             /\ ~Has(At(cfg, <<c>>).m, key)
             /\ At(toml, <<c, key>>).k = "dict"
             /\ ~Has(At(toml, <<c, key>>).m, "name")}
    ELSE {}

\* C25: a key that an override brings into the variables collection with a
\* mapping without `name` is stored as a Variable whose name is the key; an entry
\* brought into datasets or paths gets no name
C25_NameDefaulting ==
    [][(pc' = "returned" /\ err' = "")
        => \A n \in 1..Len(loaded') :
              /\ \A key \in NewUnnamed(configs[Self], loaded'[n], "variables") :
                    /\ At(configs'[Self], <<"variables", key>>).k = "model"
                    /\ At(configs'[Self], <<"variables", key>>).cls = "Variable"
                    /\ At(configs'[Self], <<"variables", key, "name">>) = PyStr(key)
              /\ \A c \in {"datasets", "paths"} :
                    \A key \in NewUnnamed(configs[Self], loaded'[n], c) :
                       /\ At(configs'[Self], <<c, key>>).k = "model"
                       /\ ~Has(At(configs'[Self], <<c, key>>).m, "name")]_vars

\* the new variable fullfort_gk of an override has been stored under its name
C25_Witness ==
    /\ pc = "returned"
    /\ err = ""
    /\ Len(loaded) = 1
    /\ At(loaded[1], <<"variables", "fullfort_gk", "unit">>) = PyStr("v")
    /\ At(loaded[1], <<"variables", "fullfort_gk", "name">>) = Missing
    /\ At(configs[Self], <<"variables", "fullfort_gk", "name">>) = PyStr("fullfort_gk")

-----------------------------------------------------------------------------
(* The two modes of the cycle check. After a call that raised, warnings     *)
(* holds the variable that the message of the CyclicGraphError names.       *)

\* is_cyclic_depth_first_search on the graph of the call, in the other mode
OtherMode == is_cyclic_depth_first_search(call.derived_graph, ~call.fail_on_cyclic)

\* C26: on every graph the check with fail_on_cyclic=True raises CyclicGraphError
\* exactly when the check with fail_on_cyclic=False returns True, and returns
\* False otherwise; the variable the error names is derived from itself
C26_FatalAndBooleanAgree ==
    (pc = "returned" /\ call.fn = "is_cyclic_depth_first_search") =>
        /\ call.fail_on_cyclic =>
              /\ (err = "CyclicGraphError") <=> (OtherMode = Returned(TRUE))
              /\ (err = "") <=> (OtherMode = Returned(FALSE))
              /\ err = "" => merged = PyBool(FALSE)
              /\ err # "" => warnings[1] \in Closure(call.derived_graph,
                                                     DerivedFrom(call.derived_graph, warnings[1]))
        /\ ~call.fail_on_cyclic =>
              /\ err = ""
              /\ (merged = PyBool(TRUE)) <=> OtherMode.raised
              /\ (merged = PyBool(FALSE)) <=> (OtherMode = Returned(FALSE))

\* the fatal mode has raised for c, which a and b lead to and which is derived
\* from itself through b
C26_Witness ==
    /\ pc = "returned"
    /\ call.fn = "is_cyclic_depth_first_search"
    /\ call.fail_on_cyclic
    /\ call.derived_graph = << <<"a", <<"d", "b">> >>, <<"b", <<"c">> >>, <<"c", <<"b">> >> >>
    /\ err = "CyclicGraphError"
    /\ warnings = <<"b">>

-----------------------------------------------------------------------------
(* The cycle check step by step. loaded is the call stack of                *)
(* variable_is_cyclic_depth_first_search, the innermost call last; a frame  *)
(* holds the variable and visited of the call and the place of its loop     *)
(* over derived_from (0 before the loop is reached). ncalls counts the keys *)
(* the loop of is_cyclic_depth_first_search has taken, merged is the value  *)
(* the last call returned, None before any has.                             *)

Frame(variable, visited) == [variable |-> variable, visited |-> visited, next |-> 0]

Top == loaded[Len(loaded)]

Pop == SubSeq(loaded, 1, Len(loaded) - 1)

SearchInit ==
    /\ configs = <<>>
    /\ pc = "loop"
    /\ \E keys \in KeySets : \E derived_from \in [keys -> DependencyLists] :
          \E fail_on_cyclic \in BOOLEAN :
             call = CycleCall(GraphOf(keys, derived_from), fail_on_cyclic)
    /\ loaded = <<>>
    /\ warnings = <<>>
    /\ err = ""
    /\ merged = PyNone
    /\ ncalls = 0

\* lines 45-55: the loop over derived_graph.keys() takes the next key and
\* calls, or is through and returns False
NextKey ==
    /\ pc = "loop"
    /\ IF ncalls = Len(call.derived_graph)
       THEN /\ pc' = "returned"
            /\ merged' = PyBool(FALSE)
            /\ UNCHANGED <<loaded, ncalls>>
       ELSE /\ pc' = "call"
            /\ loaded' = <<Frame(call.derived_graph[ncalls + 1][1], {})>>
            /\ ncalls' = ncalls + 1
            /\ UNCHANGED merged
    /\ UNCHANGED <<configs, call, warnings, err>>

\* the innermost call returns b to its caller
ReturnValue(b) ==
    /\ loaded' = Pop
    /\ merged' = PyBool(b)
    /\ pc' = "return"
    /\ UNCHANGED <<configs, call, warnings, err, ncalls>>

\* lines 13-26: the call that was just made looks at its variable
Enter ==
    /\ pc = "call"
    /\ IF Top.variable \in Top.visited
       THEN IF call.fail_on_cyclic
            THEN /\ err' = "CyclicGraphError"
                 /\ warnings' = <<Top.variable>>
                 /\ loaded' = <<>>
                 /\ merged' = PyNone
                 /\ pc' = "returned"
                 /\ UNCHANGED <<configs, call, ncalls>>
            ELSE ReturnValue(TRUE)
       ELSE IF ~Has(call.derived_graph, Top.variable) THEN ReturnValue(FALSE)
       ELSE /\ loaded' = [loaded EXCEPT ![Len(loaded)].next = 1]
            /\ pc' = "body"
            /\ UNCHANGED <<configs, call, warnings, err, merged, ncalls>>

\* lines 28-39: the loop over derived_from calls for its next name, or is
\* through and returns False
Body ==
    /\ pc = "body"
    /\ IF Top.next > Len(Get(call.derived_graph, Top.variable))
       THEN ReturnValue(FALSE)
       ELSE /\ loaded' = Append(loaded, Frame(Get(call.derived_graph, Top.variable)[Top.next],
                                              Top.visited \cup {Top.variable}))
            /\ pc' = "call"
            /\ UNCHANGED <<configs, call, warnings, err, merged, ncalls>>

\* A caller that calls for the same name again after a False.
ReturnToSameName ==
    /\ pc = "return"
    /\ IF loaded = <<>>
       THEN /\ pc' = IF merged = PyBool(TRUE) THEN "returned" ELSE "loop"
            /\ UNCHANGED <<configs, call, loaded, warnings, err, merged, ncalls>>
       ELSE IF merged = PyBool(TRUE) THEN ReturnValue(TRUE)
       ELSE /\ pc' = "body"
            /\ UNCHANGED <<configs, call, loaded, warnings, err, merged, ncalls>>

\* lines 36-37 and 52-53: the caller has the value of the call; True ends its
\* loop, False lets it go on
Return ==
    /\ pc = "return"
    /\ IF loaded = <<>>
       THEN /\ pc' = IF merged = PyBool(TRUE) THEN "returned" ELSE "loop"
            /\ UNCHANGED <<configs, call, loaded, warnings, err, merged, ncalls>>
       ELSE IF merged = PyBool(TRUE) THEN ReturnValue(TRUE)
       ELSE /\ loaded' = [loaded EXCEPT ![Len(loaded)].next = @ + 1]
            /\ pc' = "body"
            /\ UNCHANGED <<configs, call, warnings, err, merged, ncalls>>

SearchNext ==
    \/ NextKey
    \/ Enter
    \/ Body
    \/ Return

\* the interpreter always takes the next step of the one thread there is
SearchSpec == SearchInit /\ [][SearchNext]_vars /\ WF_vars(SearchNext)

\* the step-by-step search ends as the function does
SearchEndsAsFunction ==
    pc = "returned" =>
        LET r == is_cyclic_depth_first_search(call.derived_graph, call.fail_on_cyclic)
        IN IF r.raised THEN err = "CyclicGraphError" /\ warnings = <<r.variable>>
           ELSE err = "" /\ merged = PyBool(r.v)

\* C29: on every graph, with cycles, self-loops and dependencies that are not
\* keys, is_cyclic_depth_first_search ends, with a boolean or with
\* CyclicGraphError, and no path of the recursion holds more calls than the
\* graph has keys plus one
C29_SearchTerminates ==
    /\ <>(pc = "returned")
    /\ [](pc = "returned" =>
             \/ err = "" /\ merged \in {PyBool(TRUE), PyBool(FALSE)}
             \/ err = "CyclicGraphError" /\ merged = PyNone)
    /\ [](Len(loaded) <= Len(call.derived_graph) + 1)

\* the recursion is as deep as it gets, on a graph with a cycle, a self-loop and
\* a dependency that is not a key
C29_Witness ==
    /\ call.derived_graph = << <<"a", <<"d", "b">> >>, <<"b", <<"c">> >>, <<"c", <<"c", "a">> >> >>
    /\ Len(loaded) = 4
    /\ pc = "call"

\* C27: after load_pydantic_settings and after every merge that follows, every
\* entry of the variables collection has its key as its name, the synthesized
\* label entries and the entries whose override carries a name included
C27_NameEqualsKey ==
    Self \in DOMAIN configs =>
        LET variables == At(configs[Self], <<"variables">>)
        IN variables.k = "DotMapDict" =>
              \A n \in 1..Len(variables.m) :
                 At(variables.m[n][2], <<"name">>) = PyStr(variables.m[n][1])

=============================================================================
